---- MODULE Spec2Model ----
(***************************************************************************)
(* A model of xadder.py (and of the preview split of xad.py): the decode   *)
(* of an XAD chip-data file.  Texts and byte strings are sequences of      *)
(* numbers (code points, byte values); DOM nodes are records.              *)
(***************************************************************************)
EXTENDS Integers, Sequences, FiniteSets, TLC

VARIABLES
    doc,      \* the input: the top-level nodes of the outer document
    stack,    \* the handler calls in progress, the innermost last
    status,   \* "running", "done" (parse_xad_file returned) or "failed" (it raised)
    error,    \* the exception that ended the decode
    handled,  \* the nodes a handler loop has taken up so far, in that order
    walks,    \* the handler calls made so far
    parsed,   \* the texts handed to parseString so far
    out,      \* the lines printed so far
    files     \* the writes to files so far

vars == <<doc, stack, status, error, handled, walks, parsed, out, files>>

(***************************************************************************)
(* Results of the library calls the code makes: a value, or the exception  *)
(* the call raises.                                                        *)
(***************************************************************************)
NoNode == <<-1>>

\* The var_type of an exception that has none: only UnsupportedPackedValueType
\* (lines 55-63) carries one.
NoVarType == <<-1>>

Ok(v) ==
    [ok |-> TRUE, val |-> v, exc |-> "none", node |-> NoNode, msg |-> "",
     var_type |-> NoVarType]

Fail(e) ==
    [ok |-> FALSE, val |-> <<>>, exc |-> e, node |-> NoNode, msg |-> "",
     var_type |-> NoVarType]

\* UnexpectedNodeError(node, message): the node is named by its path.
Unexpected(n, m) ==
    [ok |-> FALSE, val |-> <<>>, exc |-> "UnexpectedNodeError", node |-> n, msg |-> m,
     var_type |-> NoVarType]

RECURSIVE Concat(_)
Concat(ss) == IF ss = <<>> THEN <<>> ELSE Head(ss) \o Concat(Tail(ss))

Zeros(n) == [k \in 1..n |-> 0]

\* Python's s[a:b] for 0 <= a and 0 <= b, on a 1-based sequence: the elements
\* at 0-based offsets a .. b-1 that exist (the empty sequence when there are none).
Slice(s, a, b) ==
    LET hi == IF b < Len(s) THEN b ELSE Len(s)
    IN  IF a >= hi THEN <<>> ELSE SubSeq(s, a + 1, hi)

\* Python's s[a:] for 0 <= a.
SliceFrom(s, a) == Slice(s, a, Len(s))

\* Python's s[-k:] for k > 0: the last k elements, all of s when it is shorter.
SliceLast(s, k) == IF Len(s) <= k THEN s ELSE SubSeq(s, Len(s) - k + 1, Len(s))

\* Python's s[a:-k] for a >= 0 and k > 0.
SliceBut(s, a, k) == IF Len(s) - k <= a THEN <<>> ELSE SubSeq(s, a + 1, Len(s) - k)

(***************************************************************************)
(* base64.b64decode (binascii.a2b_base64, not strict): characters outside  *)
(* the alphabet are skipped, a complete pad sequence ends the input, and   *)
(* an incomplete last quad raises binascii.Error.                          *)
(***************************************************************************)
B64Value(c) ==
    IF c >= 65 /\ c <= 90 THEN c - 65
    ELSE IF c >= 97 /\ c <= 122 THEN c - 71
    ELSE IF c >= 48 /\ c <= 57 THEN c + 4
    ELSE IF c = 43 THEN 62
    ELSE IF c = 47 THEN 63
    ELSE 64

\* One pass of a2b_base64's loop over the character c.  st holds the loop's
\* variables; done says that a complete pad sequence ended the input.
A2bStep(st, c) ==
    LET v == B64Value(c)
    IN  IF c = 61
        THEN IF st.quad >= 2 /\ st.quad + st.pads + 1 >= 4
             THEN [st EXCEPT !.done = TRUE]
             ELSE IF st.quad >= 2 THEN [st EXCEPT !.pads = @ + 1] ELSE st
        ELSE IF v >= 64 THEN st
        ELSE CASE st.quad = 0 ->
                    [st EXCEPT !.quad = 1, !.pads = 0, !.left = v]
               [] st.quad = 1 ->
                    [st EXCEPT !.quad = 2, !.pads = 0, !.left = v % 16,
                               !.acc = Append(@, st.left * 4 + (v \div 16))]
               [] st.quad = 2 ->
                    [st EXCEPT !.quad = 3, !.pads = 0, !.left = v % 4,
                               !.acc = Append(@, st.left * 16 + (v \div 4))]
               [] st.quad = 3 ->
                    [st EXCEPT !.quad = 0, !.pads = 0, !.left = 0,
                               !.acc = Append(@, st.left * 64 + v)]

\* The loop over s[lo..hi], run as two halves one after the other (the same
\* passes in the same order; halving only keeps the evaluation shallow).
RECURSIVE A2bLoop(_, _, _, _)
A2bLoop(s, lo, hi, st) ==
    IF lo > hi THEN st
    ELSE IF lo = hi THEN A2bStep(st, s[lo])
    ELSE LET mid == (lo + hi) \div 2
             m == A2bLoop(s, lo, mid, st)
         IN  IF m.done THEN m ELSE A2bLoop(s, mid + 1, hi, m)

A2bBase64(s) ==
    LET st == A2bLoop(s, 1, Len(s),
                      [quad |-> 0, pads |-> 0, left |-> 0, acc |-> <<>>, done |-> FALSE])
    IN  IF ~st.done /\ st.quad # 0 THEN Fail("binascii.Error") ELSE Ok(st.acc)

\* b64decode of a bytes object (the comment payloads are bytes).
B64DecodeBytes(s) == A2bBase64(s)

\* b64decode of a str: it is first encoded as ASCII, which raises ValueError
\* for a character above 127.
B64DecodeStr(s) ==
    IF \E i \in 1..Len(s) : s[i] > 127
    THEN Fail("ValueError")
    ELSE A2bBase64(s)

(***************************************************************************)
(* The encoder the instrument side uses to lay a payload out: standard     *)
(* Base64 with padding.  It produces the inputs; the code never encodes.   *)
(***************************************************************************)
B64Char(v) ==
    IF v < 26 THEN v + 65
    ELSE IF v < 52 THEN v + 71
    ELSE IF v < 62 THEN v - 4
    ELSE IF v = 62 THEN 43 ELSE 47

RECURSIVE B64Encode(_)
B64Encode(b) ==
    IF Len(b) = 0 THEN <<>>
    ELSE IF Len(b) = 1
    THEN <<B64Char(b[1] \div 4), B64Char((b[1] % 4) * 16), 61, 61>>
    ELSE IF Len(b) = 2
    THEN <<B64Char(b[1] \div 4), B64Char((b[1] % 4) * 16 + (b[2] \div 16)),
           B64Char((b[2] % 16) * 4), 61>>
    ELSE IF Len(b) = 3
    THEN <<B64Char(b[1] \div 4), B64Char((b[1] % 4) * 16 + (b[2] \div 16)),
           B64Char((b[2] % 16) * 4 + (b[3] \div 64)), B64Char(b[3] % 64)>>
    ELSE LET h == 3 * (((Len(b) \div 3) + 1) \div 2)
         IN  B64Encode(SubSeq(b, 1, h)) \o B64Encode(SubSeq(b, h + 1, Len(b)))

(***************************************************************************)
(* str.encode('utf-16-le') and bytes.decode('utf-16-le').  A str is a      *)
(* sequence of code points; a code point above 0xFFFF is a surrogate pair  *)
(* in UTF-16.  Decoding raises UnicodeDecodeError on an odd length and on  *)
(* an unpaired surrogate.                                                  *)
(***************************************************************************)
Utf16Unit(c) ==
    IF c < 65536
    THEN <<c % 256, c \div 256>>
    ELSE LET hi == 55296 + ((c - 65536) \div 1024)
             lo == 56320 + ((c - 65536) % 1024)
         IN  <<hi % 256, hi \div 256, lo % 256, lo \div 256>>

RECURSIVE Utf16leEncode(_)
Utf16leEncode(t) ==
    IF t = <<>> THEN <<>>
    ELSE IF Len(t) = 1 THEN Utf16Unit(t[1])
    ELSE LET h == Len(t) \div 2
         IN  Utf16leEncode(SubSeq(t, 1, h)) \o Utf16leEncode(SubSeq(t, h + 1, Len(t)))

IsHighSurrogate(u) == u >= 55296 /\ u <= 56319

IsLowSurrogate(u) == u >= 56320 /\ u <= 57343

IsCodePoint(c) == c >= 0

Utf16leDecode(b) ==
    LET n == Len(b) \div 2
        U == [k \in 1..n |-> b[2 * k - 1] + 256 * b[2 * k]]
        paired == \A k \in 1..n :
                      /\ IsHighSurrogate(U[k]) => k < n /\ IsLowSurrogate(U[k + 1])
                      /\ IsLowSurrogate(U[k]) => k > 1 /\ IsHighSurrogate(U[k - 1])
        points == [k \in 1..n |->
                      IF IsLowSurrogate(U[k]) THEN -1
                      ELSE IF IsHighSurrogate(U[k])
                      THEN 65536 + (U[k] - 55296) * 1024 + (U[k + 1] - 56320)
                      ELSE U[k]]
    IN  IF Len(b) % 2 # 0 \/ ~paired THEN Fail("UnicodeDecodeError")
        ELSE Ok(SelectSeq(points, IsCodePoint))

Utf8Unit(c) ==
    IF c < 128 THEN <<c>>
    ELSE IF c < 2048 THEN <<192 + (c \div 64), 128 + (c % 64)>>
    ELSE IF c < 65536
    THEN <<224 + (c \div 4096), 128 + ((c \div 64) % 64), 128 + (c % 64)>>
    ELSE <<240 + (c \div 262144), 128 + ((c \div 4096) % 64),
           128 + ((c \div 64) % 64), 128 + (c % 64)>>

\* str.encode('utf-8') of a text read from an XML document (no surrogates).
RECURSIVE Utf8Encode(_)
Utf8Encode(t) ==
    IF t = <<>> THEN <<>>
    ELSE IF Len(t) = 1 THEN Utf8Unit(t[1])
    ELSE LET h == Len(t) \div 2
         IN  Utf8Encode(SubSeq(t, 1, h)) \o Utf8Encode(SubSeq(t, h + 1, Len(t)))

\* int.from_bytes(b, byteorder='little'): 0 for the empty byte string.  It is
\* only ever given at most four bytes.
RECURSIVE IntFromBytesLE(_)
IntFromBytesLE(b) ==
    IF b = <<>> THEN 0 ELSE Head(b) + 256 * IntFromBytesLE(Tail(b))


(***************************************************************************)
(* What one call does, seen from its caller: the lines it prints (emit),   *)
(* in order, and then how it ends: it returns ("none"), it raises exc      *)
(* (carrying node; msg is the exception's message, or the statement that   *)
(* raised), or it goes on into the nested walk call.                       *)
(***************************************************************************)
NoCall == [fn |-> "none", kids |-> <<>>, i |-> 0, name |-> <<>>, path |-> <<>>]

\* A printed line: what it is about (key), the name the handler was given or
\* the element it stands for (ctx), and the value printed.
Ev(k, v) == [key |-> k, ctx |-> <<>>, val |-> v]

EvIn(c, k, v) == [key |-> k, ctx |-> c, val |-> v]

\* png.write(gel_image): a write to the file of that name.
Write(f, b) == [key |-> "write", ctx |-> <<f>>, val |-> b]

Returns(es) ==
    [emit |-> es, exc |-> "none", node |-> NoNode, msg |-> "", call |-> NoCall,
     xml |-> <<>>, var_type |-> NoVarType]

Raises(es, e, n, m) ==
    [emit |-> es, exc |-> e, node |-> n, msg |-> m, call |-> NoCall, xml |-> <<>>,
     var_type |-> NoVarType]

\* A step that ends in the exception the call with result r raised.
Reraises(r) == [Raises(<<>>, r.exc, r.node, r.msg) EXCEPT !.var_type = r.var_type]

Calls(es, f) ==
    [emit |-> es, exc |-> "none", node |-> NoNode, msg |-> "", call |-> f,
     xml |-> <<>>, var_type |-> NoVarType]

\* The same, for a step that hands the text x to parseString first.
Parsing(eff, x) == [eff EXCEPT !.xml = <<x>>]

(***************************************************************************)
(* handle_header: five little-endian integers cut out of the bytes given,  *)
(* each printed as it is read, then the rest decoded as UTF-16LE.  A slice *)
(* past the end of the bytes is short or empty; the code checks no length. *)
(***************************************************************************)
handle_header(decoded_text) ==
    LET ints == << Ev("header_int1", IntFromBytesLE(Slice(decoded_text, 0, 4))),
                   Ev("header_int2", IntFromBytesLE(Slice(decoded_text, 4, 8))),
                   Ev("header_int3", IntFromBytesLE(Slice(decoded_text, 8, 12))),
                   Ev("header_int4", IntFromBytesLE(Slice(decoded_text, 12, 16))),
                   Ev("header_int5", IntFromBytesLE(Slice(decoded_text, 16, 20))) >>
        str == Utf16leDecode(SliceFrom(decoded_text, 20))
    IN  IF str.ok
        THEN Returns(Append(ints, Ev("header_str1", str.val)))
        ELSE Raises(ints, str.exc, NoNode, "header_str1")

(***************************************************************************)
(* The regular expressions of xad_handle_comment, matched with re.match    *)
(* and DOTALL.  Each starts with a greedy ".*", so of the places where the *)
(* sentinel and what follows it match, the last one is taken.              *)
(***************************************************************************)
CommentTagPrefix == <<99, 111, 109, 109, 101, 110, 116, 32, 116, 97, 103, 58>>

PreviewPrefixTypo == <<112, 114, 101, 118, 105, 101, 119, 32, 105, 110, 102, 111, 109, 97, 116, 105, 111, 110, 58>>

PreviewPrefix == <<112, 114, 101, 118, 105, 101, 119, 32, 105, 110, 102, 111, 114, 109, 97, 116, 105, 111, 110, 58>>

HeaderPrefix == <<104, 101, 97, 100, 101, 114, 32, 105, 110, 102, 111, 114, 109, 97, 116, 105, 111, 110, 58>>

IsUuidChar(c) == (c >= 48 /\ c <= 57) \/ (c >= 97 /\ c <= 102) \/ c = 45

IsDigit(c) == c >= 48 /\ c <= 57

Min(S) == CHOOSE x \in S : \A y \in S : x <= y

Max(S) == CHOOSE x \in S : \A y \in S : x >= y

LitAt(s, i, lit) ==
    i >= 1 /\ i + Len(lit) - 1 <= Len(s) /\ SubSeq(s, i, i + Len(lit) - 1) = lit

\* The end (exclusive) of the run of [0-9a-f-] characters that starts at p.
UuidEnd(s, p) ==
    LET stop == {k \in p..Len(s) : ~IsUuidChar(s[k])}
    IN  IF stop = {} THEN Len(s) + 1 ELSE Min(stop)

\* The end (exclusive) of the run of [0-9] characters that starts at p.
DigitsEnd(s, p) ==
    LET stop == {k \in p..Len(s) : ~IsDigit(s[k])}
    IN  IF stop = {} THEN Len(s) + 1 ELSE Min(stop)

\* A run of one or more [0-9a-f-] from p on and then a colon: the index after
\* the colon, or 0 when there is no match.
AfterUuid(s, p) ==
    LET e == UuidEnd(s, p)
    IN  IF e > p /\ e <= Len(s) /\ s[e] = 58 THEN e + 1 ELSE 0

NoMatch == [matched |-> FALSE, uuid |-> <<>>, num |-> <<>>, rest |-> <<>>]

\* The pattern of line 84: anything, "comment tag:", a run of [0-9a-f-], a
\* colon, a run of [0-9], a colon, and the rest up to the end.
MatchCommentTag(data) ==
    LET ok(i) == /\ LitAt(data, i, CommentTagPrefix)
                 /\ LET q == AfterUuid(data, i + Len(CommentTagPrefix))
                    IN  /\ q # 0
                        /\ LET e == DigitsEnd(data, q)
                           IN  e > q /\ e <= Len(data) /\ data[e] = 58
        at == {i \in 1..Len(data) : ok(i)}
    IN  IF at = {} THEN NoMatch
        ELSE LET i == Max(at)
                 p == i + Len(CommentTagPrefix)
                 q == AfterUuid(data, p)
                 e == DigitsEnd(data, q)
             IN  [matched |-> TRUE, uuid |-> SubSeq(data, p, q - 2),
                  num |-> SubSeq(data, q, e - 1),
                  rest |-> SubSeq(data, e + 1, Len(data))]

\* Anything, the sentinel in one fixed spelling, a run of [0-9a-f-], a colon,
\* and the rest.
MatchSentinel(data, prefix) ==
    LET at == {i \in 1..Len(data) :
                 LitAt(data, i, prefix) /\ AfterUuid(data, i + Len(prefix)) # 0}
    IN  IF at = {} THEN NoMatch
        ELSE LET i == Max(at)
                 p == i + Len(prefix)
                 q == AfterUuid(data, p)
             IN  [matched |-> TRUE, uuid |-> SubSeq(data, p, q - 2),
                  num |-> <<>>, rest |-> SubSeq(data, q, Len(data)), at |-> i]

\* The pattern of line 93, "preview infor?mation:": the letter r is optional,
\* and of the matches of either spelling the one that starts last is taken.
MatchPreview(data) ==
    LET a == MatchSentinel(data, PreviewPrefix)
        b == MatchSentinel(data, PreviewPrefixTypo)
        pick == IF ~a.matched THEN b
                ELSE IF ~b.matched THEN a
                ELSE IF a.at > b.at THEN a ELSE b
    IN  IF pick.matched
        THEN [matched |-> TRUE, uuid |-> pick.uuid, num |-> <<>>, rest |-> pick.rest]
        ELSE NoMatch

\* The pattern of line 109, "header information:".
MatchHeader(data) ==
    LET a == MatchSentinel(data, HeaderPrefix)
    IN  IF a.matched
        THEN [matched |-> TRUE, uuid |-> a.uuid, num |-> <<>>, rest |-> a.rest]
        ELSE NoMatch

(***************************************************************************)
(* The split of the decoded preview text (line 98): a group, one NUL or    *)
(* SOH, a group, one NUL, with DOTALL.  Both groups are greedy, so the     *)
(* second ends before the last NUL of the text and the first ends before   *)
(* the last NUL or SOH that comes before that NUL.  seps is the set of     *)
(* separating characters: {0, 1} in xadder.py, {1} in xad.py.              *)
(***************************************************************************)
NoSplit == [matched |-> FALSE, pre |-> <<>>, xml |-> <<>>]

\* The same pattern with both groups reluctant: the split at the first
\* separator that a NUL follows.
SplitPreviewFirst(t, seps) ==
    LET nuls == {q \in 1..Len(t) : t[q] = 0}
        at == {p \in 1..Len(t) : t[p] \in seps /\ \E q \in nuls : q > p}
    IN  IF at = {} THEN NoSplit
        ELSE LET p == Min(at)
                 q == Min({n \in nuls : n > p})
             IN  [matched |-> TRUE, pre |-> SubSeq(t, 1, p - 1),
                  xml |-> SubSeq(t, p + 1, q - 1)]

SplitPreview(t, seps) ==
    LET nuls == {q \in 1..Len(t) : t[q] = 0}
        at == {p \in 1..Len(t) : t[p] \in seps /\ \E q \in nuls : q > p}
    IN  IF at = {} THEN NoSplit
        ELSE LET p == Max(at)
                 q == Max(nuls)
             IN  [matched |-> TRUE, pre |-> SubSeq(t, 1, p - 1),
                  xml |-> SubSeq(t, p + 1, q - 1)]

\* bytes.replace(b'\n', b'') and the str.replace calls on the embedded XML:
\* '\r\n' becomes '\n', then every '\r' left becomes '\n'.
NotNewline(c) == c # 10

DropNewlines(b) == SelectSeq(b, NotNewline)

NormalizeNewlines(t) ==
    LET keep == [k \in 1..Len(t) |->
                    IF t[k] = 13 /\ k < Len(t) /\ t[k + 1] = 10 THEN -1
                    ELSE IF t[k] = 13 THEN 10 ELSE t[k]]
    IN  SelectSeq(keep, IsCodePoint)


(***************************************************************************)
(* inflate: zlib.decompressobj(-MAX_WBITS), decompress and flush.  A raw   *)
(* DEFLATE stream is a run of blocks; the model inflates stored blocks     *)
(* (type 0), which is what the streams it is given hold, and rejects the   *)
(* reserved type 3.  A stream that stops early is no error for a           *)
(* decompressobj: it returns what it has inflated so far.                  *)
(***************************************************************************)
RECURSIVE InflateBlocks(_, _, _)
InflateBlocks(b, i, acc) ==
    IF i > Len(b) THEN Ok(acc)
    ELSE LET bfinal == b[i] % 2
             btype == (b[i] \div 2) % 4
         IN  CASE btype = 3 -> Fail("zlib.error")
               [] btype = 0 ->
                    IF i + 4 > Len(b) THEN Ok(acc)
                    ELSE LET len == b[i + 1] + 256 * b[i + 2]
                             nlen == b[i + 3] + 256 * b[i + 4]
                             data == Slice(b, i + 4, i + 4 + len)
                         IN  IF len + nlen # 65535 THEN Fail("zlib.error")
                             ELSE IF bfinal = 1 \/ Len(data) < len
                             THEN Ok(acc \o data)
                             ELSE InflateBlocks(b, i + 5 + len, acc \o data)

inflate(data) == InflateBlocks(data, 1, <<>>)

\* The writer's side: data as one final stored block of a raw DEFLATE stream.
DeflateStored(data) ==
    LET len == Len(data)
    IN  <<1, len % 256, len \div 256, (65535 - len) % 256, (65535 - len) \div 256>>
        \o data

(***************************************************************************)
(* int(s) of a str: surrounding white space, an optional sign, decimal     *)
(* digits with single underscores between them; ValueError otherwise.      *)
(***************************************************************************)
IsSpace(c) == c \in {9, 10, 11, 12, 13, 32}

RECURSIVE DecimalValue(_)
DecimalValue(ds) ==
    IF ds = <<>> THEN 0
    ELSE 10 * DecimalValue(SubSeq(ds, 1, Len(ds) - 1)) + (ds[Len(ds)] - 48)

PyInt(s) ==
    LET ink == {k \in 1..Len(s) : ~IsSpace(s[k])}
        body == IF ink = {} THEN <<>> ELSE SubSeq(s, Min(ink), Max(ink))
        signed == body # <<>> /\ body[1] \in {43, 45}
        ds == IF signed THEN Tail(body) ELSE body
        wellformed ==
            /\ ds # <<>>
            /\ IsDigit(ds[1]) /\ IsDigit(ds[Len(ds)])
            /\ \A k \in 1..Len(ds) : IsDigit(ds[k]) \/ ds[k] = 95
            /\ \A k \in 1..(Len(ds) - 1) : ~(ds[k] = 95 /\ ds[k + 1] = 95)
        n == DecimalValue(SelectSeq(ds, IsDigit))
    IN  IF ~wellformed THEN Fail("ValueError")
        ELSE Ok(IF signed /\ body[1] = 45 THEN 0 - n ELSE n)

(***************************************************************************)
(* struct.unpack('<%d%s' % (num_values, unpack_format), decoded): the      *)
(* buffer must hold exactly num_values values of the format's width, and a *)
(* negative count makes a bad format string; struct.error otherwise.  An   *)
(* 'h' value is a signed 16-bit integer, a 'B' value a byte, and an 'f'    *)
(* value is the IEEE 754 single of the four bytes, named by its sign, its  *)
(* biased exponent (8 bits) and its fraction (23 bits).                    *)
(***************************************************************************)
FormatWidth(fmt) == CASE fmt = "f" -> 4 [] fmt = "h" -> 2 [] fmt = "B" -> 1

Single(s, e, f) == [sign |-> s, exponent |-> e, fraction |-> f]

\* An 'h' value read as 'H', without its sign.
UnpackOneUnsigned(fmt, b) ==
    CASE fmt = "f" -> Single(b[4] \div 128, (b[4] % 128) * 2 + b[3] \div 128,
                             (b[3] % 128) * 65536 + b[2] * 256 + b[1])
      [] fmt = "h" -> b[1] + 256 * b[2]
      [] fmt = "B" -> b[1]

UnpackOne(fmt, b) ==
    CASE fmt = "f" -> Single(b[4] \div 128, (b[4] % 128) * 2 + b[3] \div 128,
                             (b[3] % 128) * 65536 + b[2] * 256 + b[1])
      [] fmt = "h" -> LET u == b[1] + 256 * b[2]
                      IN  IF u >= 32768 THEN u - 65536 ELSE u
      [] fmt = "B" -> b[1]

\* The bytes struct.unpack reads a value from: the value laid out
\* little-endian at the width of its format.
PackOne(fmt, v) ==
    CASE fmt = "f" -> <<v.fraction % 256, (v.fraction \div 256) % 256,
                        (v.exponent % 2) * 128 + v.fraction \div 65536,
                        v.sign * 128 + v.exponent \div 2>>
      [] fmt = "h" -> LET u == IF v < 0 THEN v + 65536 ELSE v
                      IN  <<u % 256, u \div 256>>
      [] fmt = "B" -> <<v>>

PackValues(fmt, vs) == Concat([k \in 1..Len(vs) |-> PackOne(fmt, vs[k])])

\* struct.unpack_from in its place: bytes past the last value are ignored.
StructUnpackFrom(num_values, fmt, decoded) ==
    LET w == FormatWidth(fmt)
    IN  IF num_values < 0 \/ Len(decoded) < num_values * w
        THEN Fail("struct.error")
        ELSE Ok([k \in 1..num_values |->
                    UnpackOne(fmt, SubSeq(decoded, (k - 1) * w + 1, k * w))])

StructUnpack(num_values, fmt, decoded) ==
    LET w == FormatWidth(fmt)
    IN  IF num_values < 0 \/ Len(decoded) # num_values * w
        THEN Fail("struct.error")
        ELSE Ok([k \in 1..num_values |->
                    UnpackOne(fmt, SubSeq(decoded, (k - 1) * w + 1, k * w))])

(***************************************************************************)
(* DOM nodes, as xml.dom.minidom builds them.  type is the node type,      *)
(* name is nodeName (an element's tag, "#text", "#comment", ...), data is  *)
(* the text of a text, comment or CDATA node, attrs holds the two          *)
(* attributes the code reads (Absent when the element has none of that     *)
(* name) and kids is childNodes.  A node is named by its path: the child   *)
(* indices from the outer document down to it, continued into the          *)
(* document embedded in it.                                                *)
(***************************************************************************)
Absent == <<-1>>

NoAttrs == [numvalues |-> Absent, vartype |-> Absent]

Elem(n, ks) ==
    [type |-> "element", name |-> n, attrs |-> NoAttrs, kids |-> ks, data |-> <<>>]

Packed(n, numvalues, vartype, ks) ==
    [type |-> "element", name |-> n,
     attrs |-> [numvalues |-> numvalues, vartype |-> vartype],
     kids |-> ks, data |-> <<>>]

Text(d) ==
    [type |-> "text", name |-> "#text", attrs |-> NoAttrs, kids |-> <<>>, data |-> d]

CData(d) ==
    [type |-> "cdata", name |-> "#cdata-section", attrs |-> NoAttrs,
     kids |-> <<>>, data |-> d]

Comment(d) ==
    [type |-> "comment", name |-> "#comment", attrs |-> NoAttrs,
     kids |-> <<>>, data |-> d]

\* <?target data?>: nodeName is the target, and there are no child nodes.
ProcessingInstruction(target, d) ==
    [type |-> "processing_instruction", name |-> target, attrs |-> NoAttrs,
     kids |-> <<>>, data |-> d]

\* <!DOCTYPE name>: nodeName is the name declared, and there are no child nodes.
DocumentType(n) ==
    [type |-> "document_type", name |-> n, attrs |-> NoAttrs, kids |-> <<>>,
     data |-> <<>>]

\* get_text(node), lines 120-130.
\* get_text taking the first child's text whatever follows it.
get_text_of_first_child(node, path) ==
    IF Len(node.kids) >= 1
    THEN LET child == node.kids[1]
         IN  IF child.type = "text"
             THEN Ok(child.data)
             ELSE Unexpected(Append(path, 1), "Not a text node")
    ELSE Ok(<<>>)

get_text(node, path) ==
    IF Len(node.kids) = 1
    THEN LET child == node.kids[1]
         IN  IF child.type = "text"
             THEN Ok(child.data)
             ELSE Unexpected(Append(path, 1), "Not a text node")
    ELSE IF Len(node.kids) < 1
    THEN Ok(<<>>)
    ELSE Unexpected(path, "More than one child node")

\* get_table(node), lines 132-142: it returns nothing (None); the line it
\* prints for a Table child is printed by its caller's step.
get_table(node, path) ==
    IF Len(node.kids) = 1
    THEN LET child == node.kids[1]
         IN  IF child.name = "Table"
             THEN Ok(<<>>)
             ELSE Unexpected(Append(path, 1), "Not a Table node")
    ELSE IF Len(node.kids) < 1
    THEN Unexpected(path, "Table missing children")
    ELSE Unexpected(path, "More than one child node for table")

VarTypeR4 == <<76, 69, 95, 82, 52>>

VarTypeI2 == <<76, 69, 95, 73, 50>>

VarTypeUI1 == <<76, 69, 95, 85, 73, 49>>

\* get_packed_values with the body read and decoded before vartype is checked.
get_packed_values_body_first(node, path) ==
    IF node.type # "element" THEN Fail("AssertionError")
    ELSE IF node.attrs.numvalues = Absent THEN Fail("AttributeError")
    ELSE LET num_values == PyInt(node.attrs.numvalues)
             var_type == node.attrs.vartype
             unpack_format == IF var_type = VarTypeR4 THEN "f"
                              ELSE IF var_type = VarTypeI2 THEN "h"
                              ELSE IF var_type = VarTypeUI1 THEN "B"
                              ELSE "unsupported"
             encoded == get_text(node, path)
             decoded == B64DecodeStr(encoded.val)
             values == StructUnpack(num_values.val, unpack_format, decoded.val)
         IN  IF ~num_values.ok THEN num_values
             ELSE IF var_type = Absent THEN Fail("AttributeError")
             ELSE IF ~encoded.ok THEN encoded
             ELSE IF ~decoded.ok THEN decoded
             ELSE IF unpack_format = "unsupported"
             THEN [Fail("UnsupportedPackedValueType") EXCEPT !.var_type = var_type]
             ELSE IF ~values.ok THEN values
             ELSE IF Len(values.val) # num_values.val THEN Fail("AssertionError")
             ELSE [values EXCEPT !.msg = unpack_format]

\* get_packed_values(packed_values), lines 320-336, in the order of its
\* statements: the assert, numvalues read and converted, vartype read and
\* checked, the body read, decoded and unpacked, the final assert.
get_packed_values(node, path) ==
    IF node.type # "element" THEN Fail("AssertionError")
    ELSE IF node.attrs.numvalues = Absent THEN Fail("AttributeError")
    ELSE LET num_values == PyInt(node.attrs.numvalues)
             var_type == node.attrs.vartype
             unpack_format == IF var_type = VarTypeR4 THEN "f"
                              ELSE IF var_type = VarTypeI2 THEN "h"
                              ELSE IF var_type = VarTypeUI1 THEN "B"
                              ELSE "unsupported"
             encoded == get_text(node, path)
             decoded == B64DecodeStr(encoded.val)
             values == StructUnpack(num_values.val, unpack_format, decoded.val)
         IN  IF ~num_values.ok THEN num_values
             ELSE IF var_type = Absent THEN Fail("AttributeError")
             ELSE IF unpack_format = "unsupported"
             THEN [Fail("UnsupportedPackedValueType") EXCEPT !.var_type = var_type]
             ELSE IF ~encoded.ok THEN encoded
             ELSE IF ~decoded.ok THEN decoded
             ELSE IF ~values.ok THEN values
             ELSE IF Len(values.val) # num_values.val THEN Fail("AssertionError")
             ELSE [values EXCEPT !.msg = unpack_format]


(***************************************************************************)
(* The spelling of the element names, and the XML text of a node as        *)
(* Node.toxml() writes it: the markup characters of a text are escaped, an *)
(* element without children is written as an empty-element tag.            *)
(***************************************************************************)
NameChars(n) ==
    CASE n = "FileType" -> <<70, 105, 108, 101, 84, 121, 112, 101>>
      [] n = "Type" -> <<84, 121, 112, 101>>
      [] n = "Class" -> <<67, 108, 97, 115, 115>>
      [] n = "DataType" -> <<68, 97, 116, 97, 84, 121, 112, 101>>
      [] n = "ExternalLinks" -> <<69, 120, 116, 101, 114, 110, 97, 108, 76, 105, 110, 107, 115>>
      [] n = "PersistSampleSignals" -> <<80, 101, 114, 115, 105, 115, 116, 83, 97, 109, 112, 108, 101, 83, 105, 103, 110, 97, 108, 115>>
      [] n = "Method" -> <<77, 101, 116, 104, 111, 100>>
      [] n = "LogBook" -> <<76, 111, 103, 66, 111, 111, 107>>
      [] n = "ID" -> <<73, 68>>
      [] n = "Imported" -> <<73, 109, 112, 111, 114, 116, 101, 100>>
      [] n = "HasData" -> <<72, 97, 115, 68, 97, 116, 97>>
      [] n = "NumberOfAcquiredSamples" -> <<78, 117, 109, 98, 101, 114, 79, 102, 65, 99, 113, 117, 105, 114, 101, 100, 83, 97, 109, 112, 108, 101, 115>>
      [] n = "AssayHeader" -> <<65, 115, 115, 97, 121, 72, 101, 97, 100, 101, 114>>
      [] n = "ChipInformation" -> <<67, 104, 105, 112, 73, 110, 102, 111, 114, 109, 97, 116, 105, 111, 110>>
      [] n = "Instrument" -> <<73, 110, 115, 116, 114, 117, 109, 101, 110, 116>>
      [] n = "ComPortSettings" -> <<67, 111, 109, 80, 111, 114, 116, 83, 101, 116, 116, 105, 110, 103, 115>>
      [] n = "DataStatus" -> <<68, 97, 116, 97, 83, 116, 97, 116, 117, 115>>
      [] n = "Files" -> <<70, 105, 108, 101, 115>>
      [] n = "Diagnostics" -> <<68, 105, 97, 103, 110, 111, 115, 116, 105, 99, 115>>
      [] n = "PacketFileName" -> <<80, 97, 99, 107, 101, 116, 70, 105, 108, 101, 78, 97, 109, 101>>
      [] n = "DASampleSequence" -> <<68, 65, 83, 97, 109, 112, 108, 101, 83, 101, 113, 117, 101, 110, 99, 101>>
      [] n = "DALadderSetpoints" -> <<68, 65, 76, 97, 100, 100, 101, 114, 83, 101, 116, 112, 111, 105, 110, 116, 115>>
      [] n = "UISetpoints" -> <<85, 73, 83, 101, 116, 112, 111, 105, 110, 116, 115>>
      [] n = "DADefaultSampleSequence" -> <<68, 65, 68, 101, 102, 97, 117, 108, 116, 83, 97, 109, 112, 108, 101, 83, 101, 113, 117, 101, 110, 99, 101>>
      [] n = "DADefaultSampleSetpoints" -> <<68, 65, 68, 101, 102, 97, 117, 108, 116, 83, 97, 109, 112, 108, 101, 83, 101, 116, 112, 111, 105, 110, 116, 115>>
      [] n = "DADefaultLadderSequence" -> <<68, 65, 68, 101, 102, 97, 117, 108, 116, 76, 97, 100, 100, 101, 114, 83, 101, 113, 117, 101, 110, 99, 101>>
      [] n = "DADefaultLadderSetpoints" -> <<68, 65, 68, 101, 102, 97, 117, 108, 116, 76, 97, 100, 100, 101, 114, 83, 101, 116, 112, 111, 105, 110, 116, 115>>
      [] n = "DAChipSequence" -> <<68, 65, 67, 104, 105, 112, 83, 101, 113, 117, 101, 110, 99, 101>>
      [] n = "DAChipSetpoints" -> <<68, 65, 67, 104, 105, 112, 83, 101, 116, 112, 111, 105, 110, 116, 115>>
      [] n = "DADefaultChipSequence" -> <<68, 65, 68, 101, 102, 97, 117, 108, 116, 67, 104, 105, 112, 83, 101, 113, 117, 101, 110, 99, 101>>
      [] n = "DADefaultChipSetpoints" -> <<68, 65, 68, 101, 102, 97, 117, 108, 116, 67, 104, 105, 112, 83, 101, 116, 112, 111, 105, 110, 116, 115>>
      [] n = "DefaultUISetPoints" -> <<68, 101, 102, 97, 117, 108, 116, 85, 73, 83, 101, 116, 80, 111, 105, 110, 116, 115>>
      [] n = "DAMAssayInfoCommon" -> <<68, 65, 77, 65, 115, 115, 97, 121, 73, 110, 102, 111, 67, 111, 109, 109, 111, 110>>
      [] n = "DAMAssayInfoMolecular" -> <<68, 65, 77, 65, 115, 115, 97, 121, 73, 110, 102, 111, 77, 111, 108, 101, 99, 117, 108, 97, 114>>
      [] n = "DAMDefaultAssayInfoMolecular" -> <<68, 65, 77, 68, 101, 102, 97, 117, 108, 116, 65, 115, 115, 97, 121, 73, 110, 102, 111, 77, 111, 108, 101, 99, 117, 108, 97, 114>>
      [] n = "DAMIntegrator" -> <<68, 65, 77, 73, 110, 116, 101, 103, 114, 97, 116, 111, 114>>
      [] n = "DAMLowerMarkerPresent" -> <<68, 65, 77, 76, 111, 119, 101, 114, 77, 97, 114, 107, 101, 114, 80, 114, 101, 115, 101, 110, 116>>
      [] n = "DAMBaselineSubstractionGolovin" -> <<68, 65, 77, 66, 97, 115, 101, 108, 105, 110, 101, 83, 117, 98, 115, 116, 114, 97, 99, 116, 105, 111, 110, 71, 111, 108, 111, 118, 105, 110>>
      [] n = "DAMLinearStretchY" -> <<68, 65, 77, 76, 105, 110, 101, 97, 114, 83, 116, 114, 101, 116, 99, 104, 89>>
      [] n = "DAMMasterMarkerDetectionRNA" -> <<68, 65, 77, 77, 97, 115, 116, 101, 114, 77, 97, 114, 107, 101, 114, 68, 101, 116, 101, 99, 116, 105, 111, 110, 82, 78, 65>>
      [] n = "DAMSystemPeakDetection" -> <<68, 65, 77, 83, 121, 115, 116, 101, 109, 80, 101, 97, 107, 68, 101, 116, 101, 99, 116, 105, 111, 110>>
      [] n = "DAMTimeShift" -> <<68, 65, 77, 84, 105, 109, 101, 83, 104, 105, 102, 116>>
      [] n = "DAMPrepareRowData" -> <<68, 65, 77, 80, 114, 101, 112, 97, 114, 101, 82, 111, 119, 68, 97, 116, 97>>
      [] n = "DAMFragment2" -> <<68, 65, 77, 70, 114, 97, 103, 109, 101, 110, 116, 50>>
      [] n = "DAMPeakManipulation" -> <<68, 65, 77, 80, 101, 97, 107, 77, 97, 110, 105, 112, 117, 108, 97, 116, 105, 111, 110>>
      [] n = "DAMAlignment" -> <<68, 65, 77, 65, 108, 105, 103, 110, 109, 101, 110, 116>>
      [] n = "DAMConcentration" -> <<68, 65, 77, 67, 111, 110, 99, 101, 110, 116, 114, 97, 116, 105, 111, 110>>
      [] n = "DAMSizing" -> <<68, 65, 77, 83, 105, 122, 105, 110, 103>>
      [] n = "DAMFragment" -> <<68, 65, 77, 70, 114, 97, 103, 109, 101, 110, 116>>
      [] n = "DAMCoMigration" -> <<68, 65, 77, 67, 111, 77, 105, 103, 114, 97, 116, 105, 111, 110>>
      [] n = "DAMCalibration" -> <<68, 65, 77, 67, 97, 108, 105, 98, 114, 97, 116, 105, 111, 110>>
      [] n = "DAMSmearAnalysis" -> <<68, 65, 77, 83, 109, 101, 97, 114, 65, 110, 97, 108, 121, 115, 105, 115>>
      [] n = "DAMRollingBallA" -> <<68, 65, 77, 82, 111, 108, 108, 105, 110, 103, 66, 97, 108, 108, 65>>
      [] n = "DAMRollingBallB" -> <<68, 65, 77, 82, 111, 108, 108, 105, 110, 103, 66, 97, 108, 108, 66>>
      [] n = "DAMSpikeRejectionA" -> <<68, 65, 77, 83, 112, 105, 107, 101, 82, 101, 106, 101, 99, 116, 105, 111, 110, 65>>
      [] n = "DAMSpikeRejectionB" -> <<68, 65, 77, 83, 112, 105, 107, 101, 82, 101, 106, 101, 99, 116, 105, 111, 110, 66>>
      [] n = "DAMBaseline" -> <<68, 65, 77, 66, 97, 115, 101, 108, 105, 110, 101>>
      [] n = "DAMCommon" -> <<68, 65, 77, 67, 111, 109, 109, 111, 110>>
      [] n = "DAMStandardCurve" -> <<68, 65, 77, 83, 116, 97, 110, 100, 97, 114, 100, 67, 117, 114, 118, 101>>
      [] n = "DAMSavitzkyGolay" -> <<68, 65, 77, 83, 97, 118, 105, 116, 122, 107, 121, 71, 111, 108, 97, 121>>
      [] n = "DAMMarkerDetection" -> <<68, 65, 77, 77, 97, 114, 107, 101, 114, 68, 101, 116, 101, 99, 116, 105, 111, 110>>
      [] n = "DAMMarkerThreshold" -> <<68, 65, 77, 77, 97, 114, 107, 101, 114, 84, 104, 114, 101, 115, 104, 111, 108, 100>>
      [] n = "DAMBaselineSubstractionOld" -> <<68, 65, 77, 66, 97, 115, 101, 108, 105, 110, 101, 83, 117, 98, 115, 116, 114, 97, 99, 116, 105, 111, 110, 79, 108, 100>>
      [] n = "DAMIntegrator2" -> <<68, 65, 77, 73, 110, 116, 101, 103, 114, 97, 116, 111, 114, 50>>
      [] n = "DAMDynamicMarkerDetection" -> <<68, 65, 77, 68, 121, 110, 97, 109, 105, 99, 77, 97, 114, 107, 101, 114, 68, 101, 116, 101, 99, 116, 105, 111, 110>>
      [] n = "DAMNoiseCalculation" -> <<68, 65, 77, 78, 111, 105, 115, 101, 67, 97, 108, 99, 117, 108, 97, 116, 105, 111, 110>>
      [] n = "DAMDeconvolution" -> <<68, 65, 77, 68, 101, 99, 111, 110, 118, 111, 108, 117, 116, 105, 111, 110>>
      [] n = "DAMNoiseFlagging" -> <<68, 65, 77, 78, 111, 105, 115, 101, 70, 108, 97, 103, 103, 105, 110, 103>>
      [] n = "DAMDetailing" -> <<68, 65, 77, 68, 101, 116, 97, 105, 108, 105, 110, 103>>
      [] n = "DAMPeakPercentOfTotal" -> <<68, 65, 77, 80, 101, 97, 107, 80, 101, 114, 99, 101, 110, 116, 79, 102, 84, 111, 116, 97, 108>>
      [] n = "DAMIntegrationRefinement" -> <<68, 65, 77, 73, 110, 116, 101, 103, 114, 97, 116, 105, 111, 110, 82, 101, 102, 105, 110, 101, 109, 101, 110, 116>>
      [] n = "DAMLDLCalculation" -> <<68, 65, 77, 76, 68, 76, 67, 97, 108, 99, 117, 108, 97, 116, 105, 111, 110>>
      [] n = "AlignmentBias" -> <<65, 108, 105, 103, 110, 109, 101, 110, 116, 66, 105, 97, 115>>
      [] n = "AlignmentScale" -> <<65, 108, 105, 103, 110, 109, 101, 110, 116, 83, 99, 97, 108, 101>>
      [] n = "ChannelID" -> <<67, 104, 97, 110, 110, 101, 108, 73, 68>>
      [] n = "Index" -> <<73, 110, 100, 101, 120>>
      [] n = "MaxValue" -> <<77, 97, 120, 86, 97, 108, 117, 101>>
      [] n = "MinValue" -> <<77, 105, 110, 86, 97, 108, 117, 101>>
      [] n = "Name" -> <<78, 97, 109, 101>>
      [] n = "NumberOfSamples" -> <<78, 117, 109, 98, 101, 114, 79, 102, 83, 97, 109, 112, 108, 101, 115>>
      [] n = "UnitX" -> <<85, 110, 105, 116, 88>>
      [] n = "UnitY" -> <<85, 110, 105, 116, 89>>
      [] n = "XMaxVisibleRange" -> <<88, 77, 97, 120, 86, 105, 115, 105, 98, 108, 101, 82, 97, 110, 103, 101>>
      [] n = "XMinVisibleRange" -> <<88, 77, 105, 110, 86, 105, 115, 105, 98, 108, 101, 82, 97, 110, 103, 101>>
      [] n = "XStart" -> <<88, 83, 116, 97, 114, 116>>
      [] n = "XStartAligned" -> <<88, 83, 116, 97, 114, 116, 65, 108, 105, 103, 110, 101, 100>>
      [] n = "XStep" -> <<88, 83, 116, 101, 112>>
      [] n = "XStepAligned" -> <<88, 83, 116, 101, 112, 65, 108, 105, 103, 110, 101, 100>>
      [] n = "YMaxVisibleRange" -> <<89, 77, 97, 120, 86, 105, 115, 105, 98, 108, 101, 82, 97, 110, 103, 101>>
      [] n = "YMinVisibleRange" -> <<89, 77, 105, 110, 86, 105, 115, 105, 98, 108, 101, 82, 97, 110, 103, 101>>
      [] n = "Chipset" -> <<67, 104, 105, 112, 115, 101, 116>>
      [] n = "Chips" -> <<67, 104, 105, 112, 115>>
      [] n = "Chip" -> <<67, 104, 105, 112>>
      [] n = "AssayBody" -> <<65, 115, 115, 97, 121, 66, 111, 100, 121>>
      [] n = "Script" -> <<83, 99, 114, 105, 112, 116>>
      [] n = "RawSignals" -> <<82, 97, 119, 83, 105, 103, 110, 97, 108, 115>>
      [] n = "Packet" -> <<80, 97, 99, 107, 101, 116>>
      [] n = "DAAssaySetpoints" -> <<68, 65, 65, 115, 115, 97, 121, 83, 101, 116, 112, 111, 105, 110, 116, 115>>
      [] n = "DASampleSetpoints" -> <<68, 65, 83, 97, 109, 112, 108, 101, 83, 101, 116, 112, 111, 105, 110, 116, 115>>
      [] n = "DALadderSequence" -> <<68, 65, 76, 97, 100, 100, 101, 114, 83, 101, 113, 117, 101, 110, 99, 101>>
      [] n = "DAMAssaySetpoints" -> <<68, 65, 77, 65, 115, 115, 97, 121, 83, 101, 116, 112, 111, 105, 110, 116, 115>>
      [] n = "DAMethod" -> <<68, 65, 77, 101, 116, 104, 111, 100>>
      [] n = "xxx" -> <<120, 120, 120>>
      [] n = "RawSignal" -> <<82, 97, 119, 83, 105, 103, 110, 97, 108>>
      [] n = "ScriptStep" -> <<83, 99, 114, 105, 112, 116, 83, 116, 101, 112>>
      [] n = "Channel" -> <<67, 104, 97, 110, 110, 101, 108>>
      [] n = "Voltage" -> <<86, 111, 108, 116, 97, 103, 101>>
      [] n = "Current" -> <<67, 117, 114, 114, 101, 110, 116>>
      [] n = "SignalData" -> <<83, 105, 103, 110, 97, 108, 68, 97, 116, 97>>
      [] n = "AllowEdit" -> <<65, 108, 108, 111, 119, 69, 100, 105, 116>>
      [] n = "ScriptText" -> <<83, 99, 114, 105, 112, 116, 84, 101, 120, 116>>
      [] n = "Preview" -> <<80, 114, 101, 118, 105, 101, 119>>
      [] n = "Title" -> <<84, 105, 116, 108, 101>>
      [] n = "ChipInfo" -> <<67, 104, 105, 112, 73, 110, 102, 111>>
      [] n = "SamplesInfo" -> <<83, 97, 109, 112, 108, 101, 115, 73, 110, 102, 111>>
      [] n = "GelImage" -> <<71, 101, 108, 73, 109, 97, 103, 101>>
      [] n = "Table" -> <<84, 97, 98, 108, 101>>
      [] n = "Bogus" -> <<66, 111, 103, 117, 115>>
      [] n = "Ladder" -> <<76, 97, 100, 100, 101, 114>>
      [] n = "Sample1" -> <<83, 97, 109, 112, 108, 101, 49>>
      [] n = "compressed_data" -> <<99, 111, 109, 112, 114, 101, 115, 115, 101, 100, 95, 100, 97, 116, 97>>

XmlEscape(c) ==
    IF c = 38 THEN <<38, 97, 109, 112, 59>>
    ELSE IF c = 60 THEN <<38, 108, 116, 59>>
    ELSE IF c = 62 THEN <<38, 103, 116, 59>>
    ELSE <<c>>

RECURSIVE EscapeText(_)
EscapeText(t) ==
    IF t = <<>> THEN <<>>
    ELSE IF Len(t) = 1 THEN XmlEscape(t[1])
    ELSE LET h == Len(t) \div 2
         IN  EscapeText(SubSeq(t, 1, h)) \o EscapeText(SubSeq(t, h + 1, Len(t)))

AttrsXml(a) ==
    (IF a.numvalues = Absent THEN <<>>
     ELSE <<32, 110, 117, 109, 118, 97, 108, 117, 101, 115, 61, 34>> \o a.numvalues \o <<34>>)
    \o (IF a.vartype = Absent THEN <<>>
        ELSE <<32, 118, 97, 114, 116, 121, 112, 101, 61, 34>> \o a.vartype \o <<34>>)

RECURSIVE ToXml(_)
ToXml(n) ==
    CASE n.type = "text" -> EscapeText(n.data)
      [] n.type = "comment" -> <<60, 33, 45, 45>> \o n.data \o <<45, 45, 62>>
      [] n.type = "cdata" -> <<60, 33, 91, 67, 68, 65, 84, 65, 91>> \o n.data \o <<93, 93, 62>>
      [] n.type = "element" ->
            <<60>> \o NameChars(n.name) \o AttrsXml(n.attrs)
            \o (IF n.kids = <<>> THEN <<47, 62>>
                ELSE <<62>> \o Concat([k \in 1..Len(n.kids) |-> ToXml(n.kids[k])])
                     \o <<60, 47>> \o NameChars(n.name) \o <<62>>)

\* The text of a document whose top-level nodes are ks.
DocToXml(ks) == Concat([k \in 1..Len(ks) |-> ToXml(ks[k])])

(***************************************************************************)
(* The element handlers.  Each operator is the body of the handler's loop  *)
(* for one child: what the handler does with the child at path cpath.      *)
(* A nested handler call becomes a frame of the walk's stack.  The assert  *)
(* on the element's name that opens a handler holds at each of its call    *)
(* sites, which test that name before they call.                           *)
(***************************************************************************)
Frame(fn, node, path, name) ==
    [fn |-> fn, kids |-> node.kids, i |-> 1, name |-> name, path |-> path]

\* print("...: %s" % get_text(child))
PrintText(ctx, child, cpath) ==
    LET t == get_text(child, cpath)
    IN  IF t.ok THEN Returns(<<EvIn(ctx, child.name, t.val)>>)
        ELSE Raises(<<>>, t.exc, t.node, t.msg)

\* print("...: %s" % ','.join(map(str, get_packed_values(child))))
PrintPacked(ctx, child, cpath) ==
    LET v == get_packed_values(child, cpath)
    IN  IF v.ok THEN Returns(<<EvIn(ctx, child.name, v.val)>>)
        ELSE Reraises(v)

\* handle_preview, lines 148-163.
GelImageFilename == "gel_image.png"

handle_preview(child, cpath, name) ==
    IF child.name = "Title" THEN PrintText(<<"Preview">>, child, cpath)
    ELSE IF child.name \in {"ChipInfo", "SamplesInfo"}
    THEN LET t == get_table(child, cpath)
         IN  IF t.ok
             THEN Returns(<<EvIn(<<"Preview">>, "TODO: process table", <<>>),
                            EvIn(<<"Preview">>, child.name, <<>>)>>)
             ELSE Raises(<<>>, t.exc, t.node, t.msg)
    ELSE IF child.name = "GelImage"
    THEN LET t == get_text(child, cpath)
             gel_image == B64DecodeStr(t.val)
         IN  IF ~t.ok THEN Raises(<<>>, t.exc, t.node, t.msg)
             ELSE IF ~gel_image.ok THEN Raises(<<>>, gel_image.exc, NoNode, "")
             ELSE Returns(<<EvIn(<<"Preview">>, "Writing Gel Image", <<>>),
                            Write(GelImageFilename, gel_image.val)>>)
    ELSE Raises(<<>>, "UnexpectedNodeError", cpath,
                "Unexpected node under <Preview> element")

\* The loop of parse_preview_xml, lines 168-172.
parse_preview_xml(node, cpath, name) ==
    IF node.name = "Preview"
    THEN Calls(<<>>, Frame("handle_preview", node, cpath, <<>>))
    ELSE Raises(<<>>, "UnexpectedNodeError", cpath,
                "Unexpected node in embedded Preview XML document")

\* handle_dam_assay_setpoints, lines 174-180.
handle_dam_assay_setpoints(child, cpath, name) ==
    IF child.name = "xxx" THEN Returns(<<>>)
    ELSE Raises(<<>>, "UnexpectedNodeError", cpath,
                "Unexpected node under <DAMAssaySetpoints> element")


\* print("...: %s" % (child.toxml()))
PrintXml(ctx, child) == Returns(<<EvIn(ctx, child.name, ToXml(child))>>)

\* handle_da_assay_setpoints, lines 182-194.
DAAssayRawNames ==
    {"DAMAssayInfoCommon", "DAMAssayInfoMolecular",
     "DAMDefaultAssayInfoMolecular"}

handle_da_assay_setpoints(child, cpath, name) ==
    IF child.name = "DAMAssaySetpoints"
    THEN Calls(<<>>, Frame("handle_dam_assay_setpoints", child, cpath, <<>>))
    ELSE IF child.name \in DAAssayRawNames THEN PrintXml(<<>>, child)
    ELSE Raises(<<>>, "UnexpectedNodeError", cpath,
                "Unexpected node under <DAAssaySetpoints> element")

\* handle_da_sample_setpoints, lines 196-274: the children it prints the text
\* of, and the children it prints as XML.
DASampleTextNames ==
    {"DAMIntegrator", "DAMLowerMarkerPresent",
     "DAMBaselineSubstractionGolovin", "DAMLinearStretchY",
     "DAMMasterMarkerDetectionRNA", "DAMSystemPeakDetection", "DAMTimeShift",
     "DAMPrepareRowData", "DAMFragment2"}

DASampleRawNames ==
    {"DAMPeakManipulation", "DAMAlignment", "DAMConcentration", "DAMSizing",
     "DAMFragment", "DAMCoMigration", "DAMCalibration", "DAMSmearAnalysis",
     "DAMRollingBallA", "DAMRollingBallB", "DAMSpikeRejectionA",
     "DAMSpikeRejectionB", "DAMBaseline", "DAMCommon", "DAMStandardCurve",
     "DAMSavitzkyGolay", "DAMMarkerDetection", "DAMMarkerThreshold",
     "DAMBaselineSubstractionOld", "DAMIntegrator2",
     "DAMDynamicMarkerDetection", "DAMNoiseCalculation", "DAMDeconvolution",
     "DAMNoiseFlagging", "DAMDetailing", "DAMPeakPercentOfTotal",
     "DAMIntegrationRefinement", "DAMLDLCalculation"}

handle_da_sample_setpoints(child, cpath, name) ==
    IF child.name \in DASampleTextNames THEN PrintText(<<>>, child, cpath)
    ELSE IF child.name \in DASampleRawNames THEN PrintXml(<<>>, child)
    ELSE Raises(<<>>, "UnexpectedNodeError", cpath,
                "Unexpected node under <DASampleSetpoints> element")

\* handle_da_ladder_sequence, lines 276-282.
handle_da_ladder_sequence(child, cpath, name) ==
    IF child.name = "DAMethod" THEN PrintXml(<<>>, child)
    ELSE Raises(<<>>, "UnexpectedNodeError", cpath,
                "Unexpected node under <DALadderSequence> element")

\* handle_assay_body, lines 284-318.
AssayBodyRawNames ==
    {"DASampleSequence", "DALadderSetpoints", "UISetpoints",
     "DADefaultSampleSequence", "DADefaultSampleSetpoints",
     "DADefaultLadderSequence", "DADefaultLadderSetpoints", "DAChipSequence",
     "DAChipSetpoints", "DADefaultChipSequence", "DADefaultChipSetpoints",
     "DefaultUISetPoints"}

handle_assay_body(child, cpath, name) ==
    IF child.name = "DAAssaySetpoints"
    THEN Calls(<<>>, Frame("handle_da_assay_setpoints", child, cpath, <<>>))
    ELSE IF child.name = "DASampleSetpoints"
    THEN Calls(<<>>, Frame("handle_da_sample_setpoints", child, cpath, <<>>))
    ELSE IF child.name = "DALadderSequence"
    THEN Calls(<<>>, Frame("handle_da_ladder_sequence", child, cpath, <<>>))
    ELSE IF child.name \in AssayBodyRawNames THEN PrintXml(<<>>, child)
    ELSE Raises(<<>>, "UnexpectedNodeError", cpath,
                "Unexpected node under <AssayBody> element")

\* handle_signal_data, lines 368-412.
SignalDataTextNames ==
    {"AlignmentBias", "AlignmentScale", "ChannelID", "Index", "MaxValue",
     "MinValue", "Name", "NumberOfSamples", "UnitX", "UnitY",
     "XMaxVisibleRange", "XMinVisibleRange", "XStart", "XStartAligned",
     "XStep", "XStepAligned", "YMaxVisibleRange", "YMinVisibleRange"}

handle_signal_data(child, cpath, name) ==
    IF child.name \in SignalDataTextNames THEN PrintText(name, child, cpath)
    ELSE IF child.name \in {"RawSignal", "ScriptStep"}
    THEN PrintPacked(name, child, cpath)
    ELSE Raises(<<>>, "UnexpectedNodeError", cpath,
                "Unexpected node under SignalData element")

\* handle_voltage, handle_current and handle_channel, lines 338-366: the same
\* loop for the element kind, which is added to the name handed on.
SignalGroup(kind, child, cpath, name) ==
    IF child.name = "HasData" THEN PrintText(name, child, cpath)
    ELSE IF child.name = "SignalData"
    THEN Calls(<<>>, Frame("handle_signal_data", child, cpath, Append(name, kind)))
    ELSE Raises(<<>>, "UnexpectedNodeError", cpath, "Unexpected node under element")

handle_voltage(child, cpath, name) == SignalGroup("Voltage", child, cpath, name)

handle_current(child, cpath, name) == SignalGroup("Current", child, cpath, name)

handle_channel(child, cpath, name) == SignalGroup("Channel", child, cpath, name)

\* handle_raw_signal_set, lines 415-429.
handle_raw_signal_set(child, cpath, name) ==
    IF child.name = "Channel"
    THEN Calls(<<>>, Frame("handle_channel", child, cpath, name))
    ELSE IF child.name = "Current"
    THEN Calls(<<>>, Frame("handle_current", child, cpath, name))
    ELSE IF child.name = "HasData" THEN PrintText(name, child, cpath)
    ELSE IF child.name = "SignalData"
    THEN Calls(<<>>, Frame("handle_signal_data", child, cpath, name))
    ELSE IF child.name = "Voltage"
    THEN Calls(<<>>, Frame("handle_voltage", child, cpath, name))
    ELSE Raises(<<>>, "UnexpectedNodeError", cpath, "Unexpected node under element")

\* handle_raw_signals, lines 431-434: every child, whatever its name, is walked
\* as a signal set of that name.
handle_raw_signals(child, cpath, name) ==
    Calls(<<>>, Frame("handle_raw_signal_set", child, cpath, <<child.name>>))

\* The replace calls of line 442 on the decoded script text.
ScriptEscape(c) ==
    IF c = 13 THEN <<92, 114>>
    ELSE IF c = 10 THEN <<92, 110>>
    ELSE IF c = 39 THEN <<92, 39>>
    ELSE <<c>>

RECURSIVE EscapeScript(_)
EscapeScript(t) ==
    IF t = <<>> THEN <<>>
    ELSE IF Len(t) = 1 THEN ScriptEscape(t[1])
    ELSE LET h == Len(t) \div 2
         IN  EscapeScript(SubSeq(t, 1, h)) \o EscapeScript(SubSeq(t, h + 1, Len(t)))

\* handle_script, lines 436-444.  bytes(values) raises TypeError for floats
\* and ValueError for an integer outside 0..255.
handle_script(child, cpath, name) ==
    IF child.name = "AllowEdit" THEN PrintText(name, child, cpath)
    ELSE IF child.name = "ScriptText"
    THEN LET v == get_packed_values(child, cpath)
             text == Utf16leDecode(v.val)
         IN  IF ~v.ok THEN Reraises(v)
             ELSE IF v.val # <<>> /\ v.msg = "f" THEN Raises(<<>>, "TypeError", NoNode, "")
             ELSE IF \E k \in 1..Len(v.val) : v.val[k] < 0 \/ v.val[k] > 255
             THEN Raises(<<>>, "ValueError", NoNode, "")
             ELSE IF ~text.ok THEN Raises(<<>>, text.exc, NoNode, "")
             ELSE Returns(<<EvIn(name, "ScriptText", EscapeScript(text.val))>>)
    ELSE Raises(<<>>, "UnexpectedNodeError", cpath, "Unexpected node under Script element")

\* handle_chip, lines 447-483.
ChipTextNames ==
    {"ID", "Imported", "HasData", "NumberOfAcquiredSamples"}

ChipRawNames ==
    {"AssayHeader", "ChipInformation", "Instrument", "ComPortSettings",
     "DataStatus", "Files", "Diagnostics", "PacketFileName"}

handle_chip(child, cpath, name) ==
    IF child.name \in ChipTextNames THEN PrintText(<<"Chip">>, child, cpath)
    ELSE IF child.name \in ChipRawNames THEN PrintXml(<<"Chip">>, child)
    ELSE IF child.name = "AssayBody"
    THEN Calls(<<>>, Frame("handle_assay_body", child, cpath, <<>>))
    ELSE IF child.name = "Script"
    THEN Calls(<<>>, Frame("handle_script", child, cpath, <<"Chip">>))
    ELSE IF child.name = "RawSignals"
    THEN Calls(<<>>, Frame("handle_raw_signals", child, cpath, <<>>))
    ELSE IF child.name = "Packet" THEN PrintPacked(<<"Chip">>, child, cpath)
    ELSE Raises(<<>>, "UnexpectedNodeError", cpath,
                "Unexpected node under <Chip> element")

\* handle_chips without its else branch: an unknown child is passed over.
handle_chips_passes_unknown(child, cpath, name) ==
    IF child.name = "Chip"
    THEN Calls(<<>>, Frame("handle_chip", child, cpath, <<>>))
    ELSE Returns(<<>>)

\* handle_chips, lines 485-491.
handle_chips(child, cpath, name) ==
    IF child.name = "Chip"
    THEN Calls(<<>>, Frame("handle_chip", child, cpath, <<>>))
    ELSE Raises(<<>>, "UnexpectedNodeError", cpath,
                "Unexpected node under <Chips> element")

\* handle_chipset, lines 493-515.
ChipsetTextNames ==
    {"FileType", "Type", "Class", "DataType", "ExternalLinks",
     "PersistSampleSignals"}

ChipsetRawNames ==
    {"Method", "LogBook"}

handle_chipset(child, cpath, name) ==
    IF child.name \in ChipsetRawNames THEN PrintXml(<<"Chipset">>, child)
    ELSE IF child.name = "Chips"
    THEN Calls(<<>>, Frame("handle_chips", child, cpath, <<>>))
    ELSE IF child.name \in ChipsetTextNames THEN PrintText(<<"Chipset">>, child, cpath)
    ELSE Raises(<<>>, "UnexpectedNodeError", cpath,
                "Unexpected node under <Chipset> element")

\* The loop of parse_data_xml, lines 520-524.
parse_data_xml(node, cpath, name) ==
    IF node.name = "Chipset"
    THEN Calls(<<>>, Frame("handle_chipset", node, cpath, <<>>))
    ELSE Raises(<<>>, "UnexpectedNodeError", cpath,
                "Unexpected node in embedded Compressed Data XML document")


(***************************************************************************)
(* The documents the model decodes.  A document is what minidom hands the  *)
(* code: one root element, comments beside it, no two text nodes next to   *)
(* each other.  MaxKids bounds the children of the element a family puts   *)
(* under each handler.                                                     *)
(***************************************************************************)
MaxKids == 2

NoAdjacentText(ks) ==
    \A k \in 1..(Len(ks) - 1) : ~(ks[k].type = "text" /\ ks[k + 1].type = "text")

KidSeqs(choices) ==
    {ks \in UNION {[1..n -> choices] : n \in 0..MaxKids} : NoAdjacentText(ks)}

TxtXAD == <<88, 65, 68>>

TxtOne == <<49>>

LineEnd == Text(<<10>>)

Bogus == Elem("Bogus", <<>>)

TwoTexts(n) == Elem(n, <<Text(TxtOne), CData(TxtOne)>>)

\* numvalues="2" vartype="LE_I2" over the bytes 01 00 02 00.
PackedOk(n) == Packed(n, <<50>>, VarTypeI2, <<Text(B64Encode(<<1, 0, 2, 0>>))>>)

\* numvalues="2" vartype="LE_R4" over four bytes: half of what is declared.
PackedShort(n) == Packed(n, <<50>>, VarTypeR4, <<Text(B64Encode(<<1, 0, 2, 0>>))>>)

PackedBadType(n) == Packed(n, <<49>>, <<76, 69, 95, 73, 52>>, <<Text(B64Encode(<<1, 0, 2, 0>>))>>)

\* numvalues="2" vartype="LE_UI1" over the UTF-16LE bytes of a quote mark.
ScriptOk == Packed("ScriptText", <<50>>, VarTypeUI1, <<Text(B64Encode(<<39, 0>>))>>)

GelPng == <<137, 80, 78, 71>>

ChipsetKids ==
    {Elem("FileType", <<Text(TxtXAD)>>), Elem("Method", <<>>), TwoTexts("Type"),
     Elem("Chips", <<>>), Bogus, LineEnd}

ChipsKids == {Elem("Chip", <<>>), Elem("Chip", <<Bogus>>), Bogus, LineEnd}

ChipKids ==
    {Elem("ID", <<Text(TxtOne)>>), Elem("Files", <<>>), PackedOk("Packet"),
     PackedBadType("Packet"), Bogus, LineEnd}

AssayBodyKids ==
    {Elem("UISetpoints", <<>>), Elem("DALadderSequence", <<Bogus>>), Bogus, LineEnd}

DAAssayKids ==
    {Elem("DAMAssayInfoCommon", <<>>), Elem("DAMAssaySetpoints", <<LineEnd>>), Bogus,
     LineEnd}

DAMAssayKids == {Elem("xxx", <<>>), Bogus, LineEnd}

DASampleKids ==
    {Elem("DAMIntegrator", <<Text(TxtOne)>>), Elem("DAMSizing", <<>>),
     TwoTexts("DAMTimeShift"), Bogus, LineEnd}

DALadderKids == {Elem("DAMethod", <<>>), Bogus, LineEnd}

ScriptKids ==
    {Elem("AllowEdit", <<Text(TxtOne)>>), ScriptOk, PackedShort("ScriptText"), Bogus,
     LineEnd}

RawSignalsKids ==
    {Elem("Sample1", <<>>), Elem("Ladder", <<Bogus>>), Bogus, LineEnd}

SignalSetKids ==
    {Elem("HasData", <<Text(TxtOne)>>), Elem("Voltage", <<>>),
     Elem("SignalData", <<PackedShort("RawSignal")>>), Bogus, LineEnd}

SignalGroupKids ==
    {Elem("HasData", <<Text(TxtOne)>>), Elem("SignalData", <<Bogus>>), Bogus, LineEnd}

SignalDataKids ==
    {Elem("Name", <<Text(TxtXAD)>>), PackedOk("RawSignal"), PackedShort("ScriptStep"),
     Bogus, LineEnd}

PreviewKids ==
    {Elem("Title", <<Text(TxtXAD)>>), Elem("GelImage", <<Text(B64Encode(GelPng))>>),
     Elem("ChipInfo", <<Elem("Table", <<>>)>>), Elem("SamplesInfo", <<>>), Bogus,
     LineEnd}

\* The chain of elements from the root down to the element a family varies;
\* an element of a known name follows the chain at two of its levels.
InChipset(ks) == <<Elem("Chipset", ks)>>

InChips(ks) == InChipset(<<Elem("Chips", ks), Elem("DataType", <<Text(TxtXAD)>>)>>)

InChip(ks) == InChips(<<Elem("Chip", ks), Elem("Chip", <<>>)>>)

InAssayBody(ks) == InChip(<<Elem("AssayBody", ks)>>)

InRawSignals(ks) == InChip(<<Elem("RawSignals", ks)>>)

InSignalSet(ks) == InRawSignals(<<Elem("Sample1", ks)>>)

HandlerDocs ==
    {InChipset(ks) : ks \in KidSeqs(ChipsetKids)}
    \cup {InChips(ks) : ks \in KidSeqs(ChipsKids)}
    \cup {InChip(ks) : ks \in KidSeqs(ChipKids)}
    \cup {InAssayBody(ks) : ks \in KidSeqs(AssayBodyKids)}
    \cup {InAssayBody(<<Elem("DAAssaySetpoints", ks)>>) : ks \in KidSeqs(DAAssayKids)}
    \cup {InAssayBody(<<Elem("DAAssaySetpoints", <<Elem("DAMAssaySetpoints", ks)>>)>>) :
             ks \in KidSeqs(DAMAssayKids)}
    \cup {InAssayBody(<<Elem("DASampleSetpoints", ks)>>) : ks \in KidSeqs(DASampleKids)}
    \cup {InAssayBody(<<Elem("DALadderSequence", ks)>>) : ks \in KidSeqs(DALadderKids)}
    \cup {InChip(<<Elem("Script", ks)>>) : ks \in KidSeqs(ScriptKids)}
    \cup {InRawSignals(ks) : ks \in KidSeqs(RawSignalsKids)}
    \cup {InSignalSet(ks) : ks \in KidSeqs(SignalSetKids)}
    \cup {InSignalSet(<<Elem("Channel", ks)>>) : ks \in KidSeqs(SignalGroupKids)}
    \cup {InSignalSet(<<Elem("Current", ks)>>) : ks \in KidSeqs(SignalGroupKids)}
    \cup {InSignalSet(<<Elem("Voltage", ks)>>) : ks \in KidSeqs(SignalGroupKids)}
    \cup {InSignalSet(<<Elem("SignalData", ks)>>) : ks \in KidSeqs(SignalDataKids)}
    \cup {InSignalSet(<<Elem("Voltage", <<Elem("SignalData", ks)>>)>>) :
             ks \in KidSeqs(SignalDataKids)}

\* A document as the parser can hand it over: one root, a comment before or
\* after it or none.
Remark == Comment(<<120>>)

AroundRoot(root) == {<<root>>, <<Remark, root>>, <<root, Remark>>}

ExampleChipset == Elem("Chipset", <<Elem("FileType", <<Text(TxtXAD)>>)>>)

\* Documents nested deeper than any chain of handlers: the nest sits under
\* an element a handler prints with toxml(), or under one it rejects.
MaxNest == 10

RECURSIVE Nest(_)
Nest(n) == IF n = 0 THEN Bogus ELSE Elem("Chip", <<Nest(n - 1)>>)

DeepDocs ==
    { InChipset(<<Elem("Method", <<Nest(MaxNest)>>), Elem("Chips", <<>>)>>),
      InChip(<<Elem("Files", <<Nest(MaxNest)>>)>>),
      InAssayBody(<<Elem("UISetpoints", <<Nest(MaxNest)>>)>>),
      InChip(<<Elem("Chip", <<Nest(MaxNest)>>)>>),
      InChip(<<Elem("Files", <<Nest(MaxNest)>>),
               Elem("RawSignals",
                    <<Elem("Sample1",
                           <<Elem("Voltage",
                                  <<Elem("SignalData",
                                         <<PackedOk("RawSignal")>>)>>)>>)>>)>>) }

DataDocs ==
    HandlerDocs \cup AroundRoot(ExampleChipset) \cup AroundRoot(Bogus)
        \cup DeepDocs

PreviewDocs ==
    {<<Elem("Preview", ks)>> : ks \in KidSeqs(PreviewKids)}
    \cup AroundRoot(Elem("Preview", <<>>)) \cup AroundRoot(Bogus)

\* Previews with gel images: two images that differ, one after the other in
\* one Preview or each in a Preview of its own, and an image that is not
\* Base64 after one that is.
GelJpg == <<255, 216, 255>>

GelImage(bytes) == Elem("GelImage", <<Text(B64Encode(bytes))>>)

GelKids ==
    {<<GelImage(a)>> : a \in {GelPng, GelJpg}}
    \cup {<<GelImage(a), GelImage(b)>> : a, b \in {GelPng, GelJpg}}
    \cup {<<GelImage(GelJpg), Elem("Title", <<Text(TxtXAD)>>), GelImage(GelPng)>>,
          <<GelImage(GelJpg), Elem("GelImage", <<Text(TxtOne)>>)>>,
          <<GelImage(GelPng), GelImage(<<>>)>>}

GelDocs == {<<Elem("Preview", ks)>> : ks \in GelKids}

XmlTable ==
    {[text |-> DocToXml(d), dom |-> d] : d \in DataDocs \cup PreviewDocs \cup GelDocs}


(***************************************************************************)
(* xml.dom.minidom.parseString.  The parser is a library: the model knows  *)
(* the DOM of each document text its inputs embed (XmlTable, defined with  *)
(* the inputs above) and has parseString raise ExpatError for any other    *)
(* text, none of which is well-formed XML.                                 *)
(***************************************************************************)
parseString(text) ==
    LET hits == {e \in XmlTable : e.text = text}
    IN  IF hits = {} THEN Fail("ExpatError")
        ELSE Ok((CHOOSE e \in hits : TRUE).dom)

DocFrame(fn, dom, cpath) ==
    [fn |-> fn, kids |-> dom, i |-> 1, name |-> <<>>, path |-> Append(cpath, 0)]

\* The preview branch of xad_handle_comment, lines 94-106.
PreviewSeparators == {0, 1}

PreviewBranch(preview, cpath) ==
    LET decoded == B64DecodeBytes(DropNewlines(preview.rest))
        preview_data == Utf16leDecode(decoded.val)
        preview_match == SplitPreview(preview_data.val, PreviewSeparators)
        preview_preamble == Utf16leEncode(preview_match.pre)
        preview_xml == NormalizeNewlines(preview_match.xml)
        have == <<Ev("Have preview", <<preview.uuid, preview_preamble>>)>>
        dom == parseString(preview_xml)
    IN  IF ~decoded.ok THEN Raises(<<>>, decoded.exc, NoNode, "preview b64decode")
        ELSE IF ~preview_data.ok
        THEN Raises(<<>>, preview_data.exc, NoNode, "preview decode")
        ELSE IF ~preview_match.matched
        THEN Raises(<<Ev("preview_data", <<Slice(preview_data.val, 0, 80), preview.rest>>)>>, "ParseFailure", NoNode,
                    "failed to parse preview")
        ELSE IF ~dom.ok
        THEN Parsing(Raises(have, dom.exc, NoNode, "preview parseString"), preview_xml)
        ELSE Parsing(Calls(have, DocFrame("parse_preview_xml", dom.val, cpath)),
                     preview_xml)

\* The header branch of xad_handle_comment, lines 110-116.
HeaderLen == 76

HeaderBranch(header) ==
    LET decoded == B64DecodeBytes(header.rest)
        h == handle_header(Slice(decoded.val, 0, HeaderLen))
        extra == SliceFrom(decoded.val, HeaderLen)
    IN  IF ~decoded.ok THEN Raises(<<>>, decoded.exc, NoNode, "header b64decode")
        ELSE IF h.exc # "none" THEN h
        ELSE Returns(Append(h.emit, Ev("extra header", extra)))

\* xad_handle_comment with the header pattern tried first.
xad_handle_comment_header_first(node, cpath) ==
    LET data == Utf8Encode(node.data)
        tag == MatchCommentTag(data)
        preview == MatchPreview(data)
        header == MatchHeader(data)
    IN  IF header.matched THEN HeaderBranch(header)
        ELSE IF tag.matched
        THEN Returns(<<Ev("comment tag", <<tag.uuid, tag.num, tag.rest>>)>>)
        ELSE IF preview.matched THEN PreviewBranch(preview, cpath)
        ELSE Raises(<<>>, "UnexpectedNodeError", cpath,
                    "Unexpected comment node at XAD top-level")

\* xad_handle_comment, lines 81-118: the three patterns are tried in this
\* order and the first that matches decides.
xad_handle_comment(node, cpath) ==
    LET data == Utf8Encode(node.data)
        tag == MatchCommentTag(data)
        preview == MatchPreview(data)
        header == MatchHeader(data)
    IN  IF tag.matched
        THEN Returns(<<Ev("comment tag", <<tag.uuid, tag.num, tag.rest>>)>>)
        ELSE IF preview.matched THEN PreviewBranch(preview, cpath)
        ELSE IF header.matched THEN HeaderBranch(header)
        ELSE Raises(<<>>, "UnexpectedNodeError", cpath,
                    "Unexpected comment node at XAD top-level")

\* re.match('.*?(.Oy9.*)$', text, flags=re.DOTALL), line 542: some character
\* and then "Oy9", anywhere in the text.
OyMark == <<79, 121, 57>>

MatchOy(text) == \E i \in 2..Len(text) : LitAt(text, i, OyMark)

\* The compressed_data branch of parse_xad_file, lines 541-553.
FooterLen == 9

CompressedBranch(child, cpath) ==
    LET text == get_text(child, cpath)
        decoded == B64DecodeStr(text.val)
        h == handle_header(Slice(decoded.val, 0, HeaderLen))
        compressed_data == SliceBut(decoded.val, HeaderLen, FooterLen)
        decoded_footer == SliceLast(decoded.val, FooterLen)
        printed == Append(h.emit, Ev("decoded footer", decoded_footer))
        inflated == inflate(compressed_data)
        data_xml == Utf16leDecode(inflated.val)
        dom == parseString(data_xml.val)
    IN  IF ~text.ok THEN Raises(<<>>, text.exc, text.node, text.msg)
        ELSE IF ~MatchOy(text.val)
        THEN Raises(<<Ev("error in re", <<>>)>>, "RuntimeError", NoNode,
                    "No active exception to reraise")
        ELSE IF ~decoded.ok THEN Raises(<<>>, decoded.exc, NoNode, "b64decode")
        ELSE IF h.exc # "none" THEN h
        ELSE IF ~inflated.ok THEN Raises(printed, inflated.exc, NoNode, "inflate")
        ELSE IF ~data_xml.ok THEN Raises(printed, data_xml.exc, NoNode, "decode")
        ELSE IF ~dom.ok
        THEN Parsing(Raises(printed, dom.exc, NoNode, "parseString"), data_xml.val)
        ELSE Parsing(Calls(printed, DocFrame("parse_data_xml", dom.val, cpath)),
                     data_xml.val)

\* The loop of parse_xad_file, lines 537-555.
XadChild(child, cpath) ==
    IF child.name = "#comment" THEN xad_handle_comment(child, cpath)
    ELSE IF child.name = "compressed_data" THEN CompressedBranch(child, cpath)
    ELSE Raises(<<>>, "UnexpectedNodeError", cpath,
                "Unexpected node in XAD XML document")


(***************************************************************************)
(* The files the model decodes: the top-level nodes of the XAD document.   *)
(***************************************************************************)
DoNotEdit == <<32, 68, 111, 32, 110, 111, 116, 32, 101, 100, 105, 116, 32, 116, 104, 105, 115, 32>>

Uuid == <<102, 56, 53, 98, 52, 55, 97, 99, 45, 54, 98, 101, 50>>

TagPiece ==
    DoNotEdit \o CommentTagPrefix \o Uuid \o <<58>> \o <<49, 48>> \o <<58>> \o <<98, 108, 111, 98>>

PreviewPiece(text) ==
    DoNotEdit \o PreviewPrefix \o Uuid \o <<58>> \o B64Encode(Utf16leEncode(text))

HeaderPiece(bytes) == DoNotEdit \o HeaderPrefix \o Uuid \o <<58>> \o B64Encode(bytes)

\* The two bytes 90 5B that open a preview, SOH, the document, NUL.
PreviewText(dom) == <<23440, 1>> \o DocToXml(dom) \o <<0>>

\* The header of the comment at line 66, and four bytes more.
SampleHeader ==
    <<2, 0, 0, 0, 79, 0, 0, 0, 56, 0, 0, 0, 53, 0, 0, 0, 10, 0, 0, 0>>
    \o Utf16leEncode(<<88, 99, 101, 101, 100, 83, 67, 79, 44, 49, 48>>) \o Zeros(34) \o <<7, 7, 7, 7>>

\* A header whose Base64 text reads "AOy9AAAA...", and one of zero bytes.
OyHeader == <<0, 236, 189>> \o Zeros(HeaderLen - 3)

ZeroHeader == Zeros(HeaderLen)

Footer == <<1, 2, 3, 4, 5, 6, 7, 8, 9>>

Buffer(hdr, dom) == hdr \o DeflateStored(Utf16leEncode(DocToXml(dom))) \o Footer

CompressedData(bytes) == Elem("compressed_data", <<Text(B64Encode(bytes))>>)

ExampleData == CompressedData(Buffer(OyHeader, <<ExampleChipset>>))

GelPreview ==
    Comment(PreviewPiece(PreviewText(
        <<Elem("Preview", <<Elem("GelImage", <<Text(B64Encode(GelPng))>>)>>)>>)))

HandlerInputs ==
    {<<CompressedData(Buffer(OyHeader, d)), Comment(TagPiece)>> : d \in DataDocs}

PreviewInputs ==
    {<<Comment(PreviewPiece(PreviewText(d))), ExampleData>> : d \in PreviewDocs}

TopComments ==
    {Comment(TagPiece), GelPreview, Comment(HeaderPiece(SampleHeader)), Remark}

TopRoots ==
    {ExampleData, CompressedData(Buffer(ZeroHeader, <<ExampleChipset>>)), Bogus,
     Elem("compressed_data", <<Bogus>>), CompressedData(Buffer(OyHeader, <<Bogus>>))}

Optional(S) == {<<>>} \cup {<<x>> : x \in S}

TopInputs ==
    {a \o <<r>> \o b : a \in Optional(TopComments), r \in TopRoots,
                       b \in Optional(TopComments)}

\* Every prefix of a whole buffer, and of a whole header.
PayloadInputs ==
    LET full == Buffer(OyHeader, <<ExampleChipset>>)
    IN  {<<CompressedData(Slice(full, 0, n))>> : n \in 0..Len(full)}

HeaderInputs ==
    {<<Comment(HeaderPiece(Slice(SampleHeader, 0, n))), ExampleData>> :
        n \in 0..Len(SampleHeader)}

\* The three sentinels in every order, one, two or three of them, or none.
SentinelPieces ==
    {TagPiece, PreviewPiece(PreviewText(<<Elem("Preview", <<>>)>>)),
     HeaderPiece(SampleHeader)}

SentinelOrders ==
    {o \in UNION {[1..n -> SentinelPieces] : n \in 0..3} :
        \A i, j \in 1..Len(o) : i # j => o[i] # o[j]}

SentinelTexts ==
    {Concat(o) : o \in SentinelOrders}
    \cup {CommentTagPrefix \o a : a \in SentinelPieces}

SentinelInputs == {<<Comment(t), ExampleData>> : t \in SentinelTexts}

\* Preview texts of up to MaxSplit characters NUL, SOH and "A".
MaxSplit == 4

SplitTexts == UNION {[1..n -> {0, 1, 65}] : n \in 0..MaxSplit}

SplitInputs == {<<Comment(PreviewPiece(t)), ExampleData>> : t \in SplitTexts}

\* A document type declaration or a processing instruction before the root
\* element, or a processing instruction after it.
Prologs ==
    {DocumentType("compressed_data"), DocumentType("xad"),
     ProcessingInstruction("compressed_data", TxtXAD),
     ProcessingInstruction("xad", TxtXAD)}

PrologInputs ==
    {<<p, ExampleData>> : p \in Prologs}
    \cup {<<Comment(TagPiece), p, ExampleData>> : p \in Prologs}
    \cup {<<ExampleData, p>> : p \in {q \in Prologs : q.type = "processing_instruction"}}

\* One preview comment with gel images, or two of them, before the payload
\* or around it.
GelComments == {Comment(PreviewPiece(PreviewText(d))) : d \in GelDocs}

GelInputs ==
    {<<c, ExampleData>> : c \in GelComments}
    \cup {<<c, d, ExampleData>> : c, d \in GelComments}
    \cup {<<c, ExampleData, d>> : c, d \in GelComments}
    \cup {<<c, Bogus>> : c \in GelComments}

Inputs ==
    HandlerInputs \cup PreviewInputs \cup TopInputs \cup PayloadInputs
    \cup HeaderInputs \cup SentinelInputs \cup SplitInputs \cup PrologInputs
    \cup GelInputs

(***************************************************************************)
(* The walk.  The code is one thread of nested loops; the stack holds the  *)
(* loops in progress.  A step of a handler is one turn of its loop over    *)
(* childNodes, or its return when the loop is over.  An exception is       *)
(* caught nowhere: it ends the run with every loop abandoned.              *)
(***************************************************************************)
NoError == [exc |-> "none", node |-> NoNode, msg |-> "", var_type |-> NoVarType]

Top == stack[Len(stack)]

At(es, p) ==
    [k \in 1..Len(es) |->
        [key |-> es[k].key, ctx |-> es[k].ctx, val |-> es[k].val, at |-> p]]

IsWrite(e) == e.key = "write"

IsPrint(e) == e.key # "write"

\* A loop that takes every other child.
AdvanceTwice(s) == [s EXCEPT ![Len(s)].i = @ + 2]

\* for child in node.childNodes: on to the next child.
Advance(s) == [s EXCEPT ![Len(s)].i = @ + 1]

Return(fn) ==
    /\ stack' = SubSeq(stack, 1, Len(stack) - 1)
    /\ walks' = Append(walks, [fn |-> fn, path |-> Top.path, kids |-> Top.kids])
    /\ status' = IF Len(stack) = 1 THEN "done" ELSE status
    /\ UNCHANGED <<doc, error, handled, parsed, out, files>>

\* The file is opened 'xb': a write to a file that exists is lost.
RecordKeepsFiles(fn, eff, child, cpath) ==
    /\ handled' = Append(handled, [fn |-> fn, path |-> cpath, name |-> child.name,
                                   type |-> child.type, exc |-> eff.exc])
    /\ out' = out \o SelectSeq(At(eff.emit, cpath), IsPrint)
    /\ files' = IF files = <<>> THEN SelectSeq(At(eff.emit, cpath), IsWrite) ELSE files
    /\ parsed' = parsed \o (IF eff.xml = <<>> THEN <<>>
                            ELSE <<[at |-> cpath, text |-> eff.xml[1]]>>)

\* What one turn of a loop leaves behind: the prints and writes it made, the
\* text it handed to the parser, and the exception or the call it ends in.
Record(fn, eff, child, cpath) ==
    /\ handled' = Append(handled, [fn |-> fn, path |-> cpath, name |-> child.name,
                                   type |-> child.type, exc |-> eff.exc])
    /\ out' = out \o SelectSeq(At(eff.emit, cpath), IsPrint)
    /\ files' = files \o SelectSeq(At(eff.emit, cpath), IsWrite)
    /\ parsed' = parsed \o (IF eff.xml = <<>> THEN <<>>
                            ELSE <<[at |-> cpath, text |-> eff.xml[1]]>>)

\* A loop body that swallows the exception and goes on to the next child.
IterateCarriesOn(fn, eff, child, cpath) ==
    /\ Record(fn, eff, child, cpath)
    /\ error' = IF eff.exc # "none"
                THEN [exc |-> eff.exc, node |-> eff.node, msg |-> eff.msg,
                      var_type |-> eff.var_type]
                ELSE error
    /\ stack' = IF eff.call = NoCall THEN Advance(stack)
                ELSE Append(Advance(stack), eff.call)
    /\ UNCHANGED <<doc, walks, status>>

Iterate(fn, eff, child, cpath) ==
    /\ Record(fn, eff, child, cpath)
    /\ IF eff.exc # "none"
       THEN /\ status' = "failed"
            /\ error' = [exc |-> eff.exc, node |-> eff.node, msg |-> eff.msg,
                      var_type |-> eff.var_type]
            /\ stack' = <<>>
       ELSE /\ UNCHANGED <<status, error>>
            /\ stack' = IF eff.call = NoCall THEN Advance(stack)
                        ELSE Append(Advance(stack), eff.call)
    /\ UNCHANGED <<doc, walks>>

\* The child the running loop has come to, and whether it has run out of them.
AtEnd == Top.i > Len(Top.kids)

Child == Top.kids[Top.i]

ChildPath == Append(Top.path, Top.i)

\* One step of the loop fn, where eff is what its body does with Child.
Walk(fn, eff) ==
    IF AtEnd THEN Return(fn) ELSE Iterate(fn, eff, Child, ChildPath)

\* The loop that is running: the innermost one, while the run goes on.
Running(fn) == status = "running" /\ Top.fn = fn

Init ==
    /\ doc \in Inputs
    /\ stack = <<[fn |-> "parse_xad_file", kids |-> doc, i |-> 1, name |-> <<>>,
                  path |-> <<>>]>>
    /\ status = "running"
    /\ error = NoError
    /\ handled = <<>>
    /\ walks = <<>>
    /\ parsed = <<>>
    /\ out = <<>>
    /\ files = <<>>

loop_parse_xad_file ==
    /\ Running("parse_xad_file")
    /\ Walk("parse_xad_file", XadChild(Child, ChildPath))

loop_parse_preview_xml ==
    /\ Running("parse_preview_xml")
    /\ Walk("parse_preview_xml", parse_preview_xml(Child, ChildPath, Top.name))

loop_handle_preview ==
    /\ Running("handle_preview")
    /\ Walk("handle_preview", handle_preview(Child, ChildPath, Top.name))

loop_parse_data_xml ==
    /\ Running("parse_data_xml")
    /\ Walk("parse_data_xml", parse_data_xml(Child, ChildPath, Top.name))

loop_handle_chipset ==
    /\ Running("handle_chipset")
    /\ Walk("handle_chipset", handle_chipset(Child, ChildPath, Top.name))

loop_handle_chips ==
    /\ Running("handle_chips")
    /\ Walk("handle_chips", handle_chips(Child, ChildPath, Top.name))

loop_handle_chip ==
    /\ Running("handle_chip")
    /\ Walk("handle_chip", handle_chip(Child, ChildPath, Top.name))

loop_handle_assay_body ==
    /\ Running("handle_assay_body")
    /\ Walk("handle_assay_body", handle_assay_body(Child, ChildPath, Top.name))

loop_handle_da_assay_setpoints ==
    /\ Running("handle_da_assay_setpoints")
    /\ Walk("handle_da_assay_setpoints", handle_da_assay_setpoints(Child, ChildPath, Top.name))

loop_handle_dam_assay_setpoints ==
    /\ Running("handle_dam_assay_setpoints")
    /\ Walk("handle_dam_assay_setpoints", handle_dam_assay_setpoints(Child, ChildPath, Top.name))

loop_handle_da_sample_setpoints ==
    /\ Running("handle_da_sample_setpoints")
    /\ Walk("handle_da_sample_setpoints", handle_da_sample_setpoints(Child, ChildPath, Top.name))

loop_handle_da_ladder_sequence ==
    /\ Running("handle_da_ladder_sequence")
    /\ Walk("handle_da_ladder_sequence", handle_da_ladder_sequence(Child, ChildPath, Top.name))

loop_handle_script ==
    /\ Running("handle_script")
    /\ Walk("handle_script", handle_script(Child, ChildPath, Top.name))

loop_handle_raw_signals ==
    /\ Running("handle_raw_signals")
    /\ Walk("handle_raw_signals", handle_raw_signals(Child, ChildPath, Top.name))

loop_handle_raw_signal_set ==
    /\ Running("handle_raw_signal_set")
    /\ Walk("handle_raw_signal_set", handle_raw_signal_set(Child, ChildPath, Top.name))

loop_handle_channel ==
    /\ Running("handle_channel")
    /\ Walk("handle_channel", handle_channel(Child, ChildPath, Top.name))

loop_handle_current ==
    /\ Running("handle_current")
    /\ Walk("handle_current", handle_current(Child, ChildPath, Top.name))

loop_handle_voltage ==
    /\ Running("handle_voltage")
    /\ Walk("handle_voltage", handle_voltage(Child, ChildPath, Top.name))

loop_handle_signal_data ==
    /\ Running("handle_signal_data")
    /\ Walk("handle_signal_data", handle_signal_data(Child, ChildPath, Top.name))

Next ==
    \/ loop_parse_xad_file
    \/ loop_parse_preview_xml
    \/ loop_handle_preview
    \/ loop_parse_data_xml
    \/ loop_handle_chipset
    \/ loop_handle_chips
    \/ loop_handle_chip
    \/ loop_handle_assay_body
    \/ loop_handle_da_assay_setpoints
    \/ loop_handle_dam_assay_setpoints
    \/ loop_handle_da_sample_setpoints
    \/ loop_handle_da_ladder_sequence
    \/ loop_handle_script
    \/ loop_handle_raw_signals
    \/ loop_handle_raw_signal_set
    \/ loop_handle_channel
    \/ loop_handle_current
    \/ loop_handle_voltage
    \/ loop_handle_signal_data

Spec == Init /\ [][Next]_vars


(***************************************************************************)
(* get_packed_values and get_text on their own: each is called once on an  *)
(* element drawn from PackedNodes, and what it returns or raises is kept.  *)
(* MaxValues bounds the declared numvalues; the bodies run from no child   *)
(* at all to one byte more than MaxValues floats.                          *)
(***************************************************************************)
MaxValues == 3

NumText(n) == <<48 + n>>

BodyBytes(len) == [k \in 1..len |-> (37 * k) % 256]

PackedCounts ==
    {Absent, <<45, 49>>, <<120>>} \cup {NumText(n) : n \in 0..MaxValues}

\* The three types the code knows, none, and "LE_I4", "le_i2" and "".
PackedTypes ==
    {Absent, VarTypeR4, VarTypeI2, VarTypeUI1, <<76, 69, 95, 73, 52>>,
     <<108, 101, 95, 105, 50>>, <<>>}

PackedBodies ==
    {<<>>, <<Text(TxtOne)>>, <<CData(TxtOne)>>, <<Bogus>>, <<Text(TxtOne), Bogus>>,
     <<Bogus, Text(TxtOne)>>,
     <<Text(TxtOne), CData(TxtOne)>>, <<Text(TxtOne), Bogus, Text(TxtOne)>>}
    \cup {<<Text(B64Encode(BodyBytes(len)))>> : len \in 1..(4 * MaxValues + 1)}

PackedNodes ==
    {Packed("RawSignal", n, t, ks) : n \in PackedCounts, t \in PackedTypes,
                                     ks \in PackedBodies}

\* Elements made from values: sequences of up to MaxRoundTrip values of each
\* type, the extreme values among them, laid out and Base64-encoded.  An
\* element made from no value has no text child.
MaxRoundTrip == 2

Int16Samples == {-32768, -1, 0, 1, 255, 256, 32767}

UInt8Samples == {0, 1, 127, 128, 255}

\* 0.0, -0.0, the least denormal, 1.0, -1.5, the greatest finite, inf, -inf.
SingleSamples ==
    {Single(0, 0, 0), Single(1, 0, 0), Single(0, 0, 1), Single(0, 127, 0),
     Single(1, 127, 4194304), Single(0, 254, 8388607), Single(0, 255, 0),
     Single(1, 255, 0)}

ValueSeqs(samples) == UNION {[1..n -> samples] : n \in 0..MaxRoundTrip}

PackedElement(var_type, fmt, vs) ==
    LET body == B64Encode(PackValues(fmt, vs))
    IN  Packed("RawSignal", NumText(Len(vs)), var_type,
               IF body = <<>> THEN <<>> ELSE <<Text(body)>>)

RoundTrips ==
    {[node |-> PackedElement(VarTypeI2, "h", vs), vals |-> vs] :
        vs \in ValueSeqs(Int16Samples)}
    \cup {[node |-> PackedElement(VarTypeUI1, "B", vs), vals |-> vs] :
             vs \in ValueSeqs(UInt8Samples)}
    \cup {[node |-> PackedElement(VarTypeR4, "f", vs), vals |-> vs] :
             vs \in ValueSeqs(SingleSamples)}

PackedInit ==
    /\ doc \in {<<n>> : n \in PackedNodes \cup {r.node : r \in RoundTrips}}
    /\ stack = <<>>
    /\ status = "running"
    /\ error = NoError
    /\ handled = <<>>
    /\ walks = <<>>
    /\ parsed = <<>>
    /\ out = <<>>
    /\ files = <<>>

\* The call fn(doc[1]): r is what it returns or raises.
Called(fn, r) ==
    /\ status = "running"
    /\ handled' = <<[fn |-> fn, path |-> <<1>>, name |-> doc[1].name,
                     type |-> doc[1].type, exc |-> r.exc]>>
    /\ IF r.ok
       THEN /\ status' = "done"
            /\ out' = <<[key |-> fn, ctx |-> <<>>, val |-> r.val, at |-> <<1>>]>>
            /\ error' = error
       ELSE /\ status' = "failed"
            /\ error' = [exc |-> r.exc, node |-> r.node, msg |-> r.msg,
                         var_type |-> r.var_type]
            /\ out' = out
    /\ UNCHANGED <<doc, stack, walks, parsed, files>>

call_get_packed_values ==
    /\ stack = <<>>
    /\ Called("get_packed_values", get_packed_values(doc[1], <<1>>))

call_get_text ==
    /\ stack = <<>>
    /\ Called("get_text", get_text(doc[1], <<1>>))

PackedNext ==
    \/ call_get_packed_values
    \/ call_get_text

SpecPacked == PackedInit /\ [][PackedNext]_vars

(***************************************************************************)
(* xad.py, the other decoder of the repository, on the same comment.  Its  *)
(* comment_handler (lines 72-88) is the callback of a streaming parser: it *)
(* tries the comment tag and the preview pattern, splits the preview text  *)
(* at SOH only, and prints any other comment.  parse_preview_xml (lines    *)
(* 114-123) feeds the embedded text to a parser without closing the input, *)
(* so a text that is no document is rejected or not as the parser has      *)
(* found its error yet: accepted says which.                               *)
(***************************************************************************)
XadPreviewSeparators == {1}

\* The preview branch of comment_handler, lines 76-86.
XadPreviewBranch(preview) ==
    LET decoded == B64DecodeBytes(DropNewlines(preview.rest))
        preview_data == Utf16leDecode(decoded.val)
        preview_match == SplitPreview(preview_data.val, XadPreviewSeparators)
        preview_header == Utf16leEncode(preview_match.pre)
        preview_xml == NormalizeNewlines(preview_match.xml)
    IN  IF ~decoded.ok THEN Raises(<<>>, decoded.exc, NoNode, "preview b64decode")
        ELSE IF ~preview_data.ok
        THEN Raises(<<>>, preview_data.exc, NoNode, "preview decode")
        ELSE IF ~preview_match.matched
        THEN Raises(<<>>, "ParseFailure", NoNode, "failed to parse preview")
        ELSE Returns(<<Ev("xad.py Have preview", <<preview.uuid, preview_header>>),
                       Ev("xad.py parse_preview_xml", preview_xml)>>)

comment_handler(data) ==
    LET tag == MatchCommentTag(Utf8Encode(data))
        preview == MatchPreview(Utf8Encode(data))
    IN  IF tag.matched
        THEN Returns(<<Ev("xad.py UUID", <<tag.uuid, tag.num, tag.rest>>)>>)
        ELSE IF preview.matched THEN XadPreviewBranch(preview)
        ELSE Returns(<<Ev("xad.py Comment", Utf8Encode(data))>>)

\* Preview texts that hold a document: the text of a real file, and the same
\* with NUL for SOH, with a second SOH, and with a NUL more before the
\* document or after it.
PreviewXml == DocToXml(<<Elem("Preview", <<>>)>>)

DocumentTexts ==
    {<<23440, 1>> \o PreviewXml \o <<0>>, <<23440, 0>> \o PreviewXml \o <<0>>,
     <<1, 1>> \o PreviewXml \o <<0>>, <<23440, 1, 0>> \o PreviewXml \o <<0>>,
     <<0, 1>> \o PreviewXml \o <<0>>, <<23440, 1>> \o PreviewXml \o <<0, 0>>,
     <<23440, 1>> \o PreviewXml \o <<0, 65, 0>>}

SplitInit ==
    /\ doc \in SplitInputs
              \cup {<<Comment(PreviewPiece(t)), ExampleData>> : t \in DocumentTexts}
    /\ stack = <<[fn |-> "parse_xad_file", kids |-> doc, i |-> 1, name |-> <<>>,
                  path |-> <<>>]>>
    /\ status = "running"
    /\ error = NoError
    /\ handled = <<>>
    /\ walks = <<>>
    /\ parsed = <<>>
    /\ out = <<>>
    /\ files = <<>>

\* The text comment_handler hands to parse_preview_xml, if it comes to that.
PreviewXmlOf(eff) ==
    IF eff.emit # <<>> /\ eff.emit[Len(eff.emit)].key = "xad.py parse_preview_xml"
    THEN <<eff.emit[Len(eff.emit)].val>>
    ELSE <<>>

\* A document is accepted; so is a call that parses nothing.
MayReject(eff) ==
    PreviewXmlOf(eff) # <<>> /\ ~parseString(PreviewXmlOf(eff)[1]).ok

CommentHandled(eff, accepted) ==
    /\ handled' = Append(handled,
           [fn |-> "comment_handler", path |-> <<1>>, name |-> doc[1].name,
            type |-> doc[1].type, exc |-> IF accepted THEN eff.exc ELSE "ExpatError"])
    /\ out' = out \o At(eff.emit, <<1>>)
    /\ UNCHANGED <<doc, stack, status, error, walks, parsed, files>>

\* xad.py on the first comment of the document, once xadder.py has run.
call_comment_handler ==
    /\ status # "running"
    /\ \A k \in 1..Len(handled) : handled[k].fn # "comment_handler"
    /\ \E eff \in {comment_handler(doc[1].data)}, accepted \in BOOLEAN :
          /\ ~accepted => MayReject(eff)
          /\ CommentHandled(eff, accepted)

SplitNext ==
    \/ loop_parse_xad_file
    \/ loop_parse_preview_xml
    \/ loop_handle_preview
    \/ loop_parse_data_xml
    \/ loop_handle_chipset
    \/ call_comment_handler

SpecSplit == SplitInit /\ [][SplitNext]_vars

(***************************************************************************)
(* The names each element handler has a branch for.                        *)
(***************************************************************************)
SignalGroupNames == {"HasData", "SignalData"}

Recognises(fn) ==
    CASE fn = "handle_preview" -> {"Title", "ChipInfo", "SamplesInfo", "GelImage"}
      [] fn = "handle_dam_assay_setpoints" -> {"xxx"}
      [] fn = "handle_da_assay_setpoints" -> {"DAMAssaySetpoints"} \cup DAAssayRawNames
      [] fn = "handle_da_sample_setpoints" -> DASampleTextNames \cup DASampleRawNames
      [] fn = "handle_da_ladder_sequence" -> {"DAMethod"}
      [] fn = "handle_assay_body" ->
            {"DAAssaySetpoints", "DASampleSetpoints", "DALadderSequence"}
            \cup AssayBodyRawNames
      [] fn = "handle_voltage" -> SignalGroupNames
      [] fn = "handle_current" -> SignalGroupNames
      [] fn = "handle_channel" -> SignalGroupNames
      [] fn = "handle_signal_data" -> SignalDataTextNames \cup {"RawSignal", "ScriptStep"}
      [] fn = "handle_raw_signal_set" ->
            {"Channel", "Current", "HasData", "SignalData", "Voltage"}
      [] fn = "handle_script" -> {"AllowEdit", "ScriptText"}
      [] fn = "handle_chip" ->
            ChipTextNames \cup ChipRawNames
            \cup {"AssayBody", "Script", "RawSignals", "Packet"}
      [] fn = "handle_chips" -> {"Chip"}
      [] fn = "handle_chipset" -> ChipsetRawNames \cup {"Chips"} \cup ChipsetTextNames

ElementHandlers ==
    {"handle_preview", "handle_dam_assay_setpoints", "handle_da_assay_setpoints",
     "handle_da_sample_setpoints", "handle_da_ladder_sequence", "handle_assay_body",
     "handle_voltage", "handle_current", "handle_channel", "handle_signal_data",
     "handle_raw_signal_set", "handle_script", "handle_chip", "handle_chips",
     "handle_chipset"}

\* The steps that met a child element under a name its handler has no branch for.
UnknownChild(h) ==
    h.fn \in ElementHandlers /\ h.type = "element" /\ h.name \notin Recognises(h.fn)

HasUnknownChild(w) ==
    /\ w.fn \in ElementHandlers
    /\ \E k \in 1..Len(w.kids) :
          w.kids[k].type = "element" /\ w.kids[k].name \notin Recognises(w.fn)

LastHandled == handled[Len(handled)]

(***************************************************************************)
(* C1.  In every element handler, a child element whose tag name the       *)
(* handler has no branch for makes the walk fail, when the walk comes to   *)
(* it, with UnexpectedNodeError carrying that child; and the walk of an    *)
(* element that has such a child never completes, nor does the decode.     *)
(***************************************************************************)
C1_UnknownChildFails ==
    /\ \A k \in 1..Len(handled) :
          UnknownChild(handled[k]) =>
              /\ k = Len(handled)
              /\ status = "failed"
              /\ error.exc = "UnexpectedNodeError"
              /\ error.node = handled[k].path
    /\ \A k \in 1..Len(walks) : ~HasUnknownChild(walks[k])
    /\ status = "done" => \A k \in 1..Len(handled) : ~UnknownChild(handled[k])

\* An unknown child met deep in the tree, under SignalData of a Voltage.
C1_Witness ==
    /\ status = "failed"
    /\ error.exc = "UnexpectedNodeError"
    /\ handled # <<>>
    /\ UnknownChild(LastHandled)
    /\ LastHandled.fn = "handle_signal_data"
    /\ error.node = LastHandled.path
    /\ Len(LastHandled.path) = 10


(***************************************************************************)
(* Depth-first document order of two paths: an element comes before its   *)
(* children, a child before its later siblings and all they hold.          *)
(***************************************************************************)
IsPrefix(p, q) == Len(p) <= Len(q) /\ SubSeq(q, 1, Len(p)) = p

DocBefore(p, q) ==
    \/ IsPrefix(p, q) /\ p # q
    \/ \E i \in 1..Min({Len(p), Len(q)}) :
          SubSeq(p, 1, i - 1) = SubSeq(q, 1, i - 1) /\ p[i] < q[i]

(***************************************************************************)
(* C2.  Nodes are handled in depth-first document order and a failure is   *)
(* the last thing that happens: the step that raised is the last step      *)
(* any handler has taken, at whatever depth it was raised, every loop is   *)
(* abandoned, and the failure reported is that step's, which makes it the  *)
(* failure of the earliest failing node in document order.                 *)
(***************************************************************************)
C2_FailureStopsTheWalk ==
    /\ \A k \in 1..(Len(handled) - 1) :
          /\ handled[k].exc = "none"
          /\ DocBefore(handled[k].path, handled[k + 1].path)
    /\ status = "failed" <=> (handled # <<>> /\ LastHandled.exc # "none")
    /\ status = "failed" =>
          /\ error.exc = LastHandled.exc
          /\ stack = <<>>
          /\ \A k \in 1..Len(walks) : ~IsPrefix(walks[k].path, LastHandled.path)
    /\ status # "failed" => error = NoError

\* A failure three loops below the top-level loop, in a document where nodes
\* follow the failing one at two levels of the data document and at top level.
C2_Witness ==
    /\ status = "failed"
    /\ Len(LastHandled.path) >= 6
    /\ LastHandled.path[1] < Len(doc)
    /\ \E k \in 1..Len(parsed) :
          /\ parsed[k].at = <<LastHandled.path[1]>>
          /\ LET dom == parseString(parsed[k].text).val
             IN  /\ Len(dom[1].kids) > LastHandled.path[4]
                 /\ Len(dom[1].kids[1].kids) > LastHandled.path[5]

(***************************************************************************)
(* C3.  When the decode fails nothing has been delivered: no value has     *)
(* been printed and no file has been written.                              *)
(***************************************************************************)
C3_NothingDeliveredOnFailure ==
    status = "failed" => out = <<>> /\ files = <<>>


(***************************************************************************)
(* C4.  get_packed_values returns values only when the Base64-decoded body *)
(* holds exactly numvalues times the element width bytes (4 for LE_R4, 2   *)
(* for LE_I2, 1 for LE_UI1), and then returns numvalues of them; a body    *)
(* that is shorter or longer makes the call fail.                          *)
(***************************************************************************)
ElementWidth(var_type) ==
    IF var_type = VarTypeR4 THEN 4
    ELSE IF var_type = VarTypeI2 THEN 2
    ELSE IF var_type = VarTypeUI1 THEN 1
    ELSE 0

Declared == PyInt(doc[1].attrs.numvalues)

DecodedBody == B64DecodeStr(get_text(doc[1], <<1>>).val)

\* The element is a well-formed packed array but for the length of its body.
ReadablePacked ==
    /\ doc[1].attrs.numvalues # Absent
    /\ Declared.ok
    /\ ElementWidth(doc[1].attrs.vartype) # 0
    /\ get_text(doc[1], <<1>>).ok
    /\ DecodedBody.ok

C4_PackedLengthExact ==
    (handled # <<>> /\ handled[1].fn = "get_packed_values") =>
        /\ status = "done" =>
              /\ ReadablePacked
              /\ Len(out[1].val) = Declared.val
              /\ Len(DecodedBody.val) = Declared.val * ElementWidth(doc[1].attrs.vartype)
        /\ (ReadablePacked
            /\ Len(DecodedBody.val) # Declared.val * ElementWidth(doc[1].attrs.vartype)) =>
              status = "failed" /\ error.exc = "struct.error"

\* Two LE_I2 values declared over a body of five bytes, one too many.
C4_Witness ==
    /\ handled # <<>> /\ handled[1].fn = "get_packed_values"
    /\ ReadablePacked
    /\ Declared.val = 2
    /\ doc[1].attrs.vartype = VarTypeI2
    /\ Len(DecodedBody.val) = 5
    /\ status = "failed"

(***************************************************************************)
(* C9.  get_text returns the empty string for an element without child    *)
(* nodes, the text of the only child when that is a text node, and fails   *)
(* with UnexpectedNodeError otherwise: one child that is no text node, or  *)
(* two or more children of any kind.                                       *)
(***************************************************************************)
C9_TextExtraction ==
    (handled # <<>> /\ handled[1].fn = "get_text") =>
        LET kids == doc[1].kids
        IN  /\ Len(kids) = 0 => status = "done" /\ out[1].val = <<>>
            /\ (Len(kids) = 1 /\ kids[1].type = "text") =>
                  status = "done" /\ out[1].val = kids[1].data
            /\ (Len(kids) = 1 /\ kids[1].type # "text") =>
                  /\ status = "failed"
                  /\ error.exc = "UnexpectedNodeError"
                  /\ error.node = <<1, 1>>
            /\ Len(kids) >= 2 =>
                  /\ status = "failed"
                  /\ error.exc = "UnexpectedNodeError"
                  /\ error.node = <<1>>
                  /\ out = <<>>

\* An element whose first child is a text node and which has more children.
C9_Witness ==
    /\ handled # <<>> /\ handled[1].fn = "get_text"
    /\ Len(doc[1].kids) >= 2
    /\ doc[1].kids[1].type = "text"
    /\ status = "failed"
    /\ error.exc = "UnexpectedNodeError"


(***************************************************************************)
(* What the run has printed for the node at path p, and the top-level      *)
(* comments and compressed_data elements it has come to.                   *)
(***************************************************************************)
KeysAt(p) == {out[k].key : k \in {j \in 1..Len(out) : out[j].at = p}}

ParsedAt(p) == {parsed[k].text : k \in {j \in 1..Len(parsed) : parsed[j].at = p}}

HeaderKeys ==
    {"header_int1", "header_int2", "header_int3", "header_int4", "header_int5",
     "header_str1"}

TopHandled(type) ==
    {k \in 1..Len(handled) :
        handled[k].fn = "parse_xad_file" /\ handled[k].type = type}

CommentData(k) == Utf8Encode(doc[handled[k].path[1]].data)

(***************************************************************************)
(* C5.  A top-level comment is a tagged blob when the comment tag pattern  *)
(* matches it, whatever else matches: one line is printed and nothing is   *)
(* Base64-decoded.  Otherwise it is a preview when the preview pattern     *)
(* matches, otherwise a header when the header pattern matches, and a      *)
(* comment no pattern matches fails the decode with UnexpectedNodeError    *)
(* carrying the comment.                                                   *)
(***************************************************************************)
C5_SentinelOrder ==
    \A k \in TopHandled("comment") :
        LET h == handled[k]
            tag == MatchCommentTag(CommentData(k)).matched
            preview == MatchPreview(CommentData(k)).matched
            header == MatchHeader(CommentData(k)).matched
        IN  /\ tag => KeysAt(h.path) = {"comment tag"} /\ h.exc = "none"
                      /\ ParsedAt(h.path) = {}
            /\ (~tag /\ preview) =>
                  /\ KeysAt(h.path) \in {{}, {"Have preview"}, {"preview_data"}}
                  /\ "Have preview" \in KeysAt(h.path) <=> ParsedAt(h.path) # {}
            /\ (~tag /\ ~preview /\ header) =>
                  /\ KeysAt(h.path) \subseteq HeaderKeys \cup {"extra header"}
                  /\ "header_int1" \in KeysAt(h.path)
                  /\ h.exc = "none" <=> "extra header" \in KeysAt(h.path)
                  /\ ParsedAt(h.path) = {}
            /\ (~tag /\ ~preview /\ ~header) =>
                  /\ KeysAt(h.path) = {}
                  /\ h.exc = "UnexpectedNodeError"
                  /\ status = "failed"
                  /\ error.node = h.path

\* A comment that all three patterns match, the comment tag last in its text.
C5_Witness ==
    \E k \in TopHandled("comment") :
        /\ MatchCommentTag(CommentData(k)).matched
        /\ MatchPreview(CommentData(k)).matched
        /\ MatchHeader(CommentData(k)).matched
        /\ MatchHeader(CommentData(k)).rest # <<>>
        /\ KeysAt(handled[k].path) = {"comment tag"}

(***************************************************************************)
(* C6.  A preview text is split at the first NUL or SOH that has a NUL     *)
(* after it: the preamble is what comes before that separator, the         *)
(* embedded XML what lies between it and the last NUL.                     *)
(***************************************************************************)
PreviewData(k) ==
    Utf16leDecode(B64DecodeBytes(DropNewlines(MatchPreview(CommentData(k)).rest)).val)

IsPreview(k) ==
    /\ ~MatchCommentTag(CommentData(k)).matched
    /\ MatchPreview(CommentData(k)).matched
    /\ B64DecodeBytes(DropNewlines(MatchPreview(CommentData(k)).rest)).ok
    /\ PreviewData(k).ok

LastNul(t) == Max({j \in 1..Len(t) : t[j] = 0})

FirstSeparator(t) == Min({i \in 1..Len(t) : t[i] \in {0, 1} /\ i < LastNul(t)})

HasSeparator(t) == \E i, j \in 1..Len(t) : i < j /\ t[i] \in {0, 1} /\ t[j] = 0

ElementText(k) == get_text(doc[handled[k].path[1]], handled[k].path)

DecodedBuffer(k) == B64DecodeStr(ElementText(k).val)

IsCompressedData(k) ==
    /\ handled[k].name = "compressed_data"
    /\ ElementText(k).ok
    /\ DecodedBuffer(k).ok

HeaderPayload(k) == B64DecodeBytes(MatchHeader(CommentData(k)).rest)

IsHeaderComment(k) ==
    /\ ~MatchCommentTag(CommentData(k)).matched
    /\ ~MatchPreview(CommentData(k)).matched
    /\ MatchHeader(CommentData(k)).matched
    /\ HeaderPayload(k).ok

EventsAt(p) == SelectSeq(out, LAMBDA e : e.at = p)

MinBufferLen == HeaderLen + FooterLen

(***************************************************************************)
(* C7.  A compressed_data buffer of fewer than 85 bytes is rejected with   *)
(* nothing of it decoded: no header line printed, nothing inflated or      *)
(* parsed.  Of a longer buffer of n bytes the header is read from bytes    *)
(* [0,76), the document inflated from [76,n-9) and the footer is [n-9,n).  *)
(***************************************************************************)
C7_ShortBufferRejected ==
    \A k \in TopHandled("element") :
        IsCompressedData(k) =>
            LET b == DecodedBuffer(k).val
                p == handled[k].path
            IN  /\ Len(b) < MinBufferLen =>
                      /\ handled[k].exc # "none"
                      /\ KeysAt(p) \cap (HeaderKeys \cup {"decoded footer"}) = {}
                      /\ ParsedAt(p) = {}
                /\ (Len(b) >= MinBufferLen /\ "decoded footer" \in KeysAt(p)) =>
                      /\ EventsAt(p)[1].val = IntFromBytesLE(SubSeq(b, 1, 4))
                      /\ EventsAt(p)[7].val = SubSeq(b, Len(b) - 8, Len(b))
                      /\ ParsedAt(p) \subseteq
                            {Utf16leDecode(inflate(SubSeq(b, 77, Len(b) - 9)).val).val}

(***************************************************************************)
(* C8.  A compressed_data element whose text decodes to 76 header bytes,   *)
(* a raw DEFLATE stream of the UTF-16LE text of a document with the one    *)
(* top-level element Chipset, and 9 more bytes is decoded: with a header   *)
(* of zero bytes and <Chipset><FileType>XAD</FileType></Chipset> the five  *)
(* header integers are 0 and FileType is "XAD".                            *)
(***************************************************************************)
IsExampleBuffer(k) ==
    /\ IsCompressedData(k)
    /\ DecodedBuffer(k).val = Buffer(ZeroHeader, <<ExampleChipset>>)

C8_ExampleDecodes ==
    \A k \in TopHandled("element") :
        IsExampleBuffer(k) =>
            /\ handled[k].exc = "none"
            /\ \A j \in 1..5 : EventsAt(handled[k].path)[j].val = 0
            /\ status # "running" =>
                  \E e \in {out[j] : j \in 1..Len(out)} :
                      e.key = "FileType" /\ e.val = TxtXAD

(***************************************************************************)
(* C10.  The header decoder fails when it is given fewer than 76 bytes,    *)
(* by a header comment or by a compressed_data buffer, and prints no       *)
(* header integer for them.                                                *)
(***************************************************************************)
C10_ShortHeaderRejected ==
    /\ \A k \in TopHandled("comment") :
          (IsHeaderComment(k) /\ Len(HeaderPayload(k).val) < HeaderLen) =>
              /\ handled[k].exc # "none"
              /\ KeysAt(handled[k].path) \cap HeaderKeys = {}
    /\ \A k \in TopHandled("element") :
          (IsCompressedData(k) /\ Len(DecodedBuffer(k).val) < HeaderLen) =>
              /\ handled[k].exc # "none"
              /\ KeysAt(handled[k].path) \cap HeaderKeys = {}

\* A text node that is nothing but a line ending.
IsLineEnding(n) == n.type = "text" /\ n.data \in {<<10>>, <<13, 10>>, <<13>>}

(***************************************************************************)
(* C11.  A text node that is only a line ending, met between the children  *)
(* of a walked element, is passed over: the step that meets it does not    *)
(* fail and the loop goes on to the next sibling.                          *)
(***************************************************************************)
C11_LineEndingIgnored ==
    [][(status = "running" /\ ~AtEnd /\ IsLineEnding(Child)) =>
           (status' = "running" /\ stack' = Advance(stack))]_vars

\* The declared type is a string, and none of the three the code knows.
UnknownVarType ==
    /\ doc[1].attrs.vartype # Absent
    /\ ElementWidth(doc[1].attrs.vartype) = 0

(***************************************************************************)
(* C12.  get_packed_values, called on an element with an integer           *)
(* numvalues and a vartype other than LE_R4, LE_I2 and LE_UI1, fails with  *)
(* UnsupportedPackedValueType carrying that vartype, whatever the body of  *)
(* the element is: no child, one that is not a text, several, a text that  *)
(* is not Base64.                                                          *)
(***************************************************************************)
C12_UnknownVarTypeRejected ==
    (/\ handled # <<>> /\ handled[1].fn = "get_packed_values"
     /\ doc[1].attrs.numvalues # Absent /\ Declared.ok
     /\ UnknownVarType) =>
        /\ status = "failed"
        /\ error.exc = "UnsupportedPackedValueType"
        /\ error.var_type = doc[1].attrs.vartype
        /\ out = <<>>

\* "LE_I4" declared on an element whose body get_text would reject.
C12_Witness ==
    /\ handled # <<>> /\ handled[1].fn = "get_packed_values"
    /\ Declared.ok /\ UnknownVarType
    /\ doc[1].attrs.vartype = <<76, 69, 95, 73, 52>>
    /\ ~get_text(doc[1], <<1>>).ok
    /\ error.exc = "UnsupportedPackedValueType"

(***************************************************************************)
(* C13.  Values of a type laid out little-endian at the width of the type  *)
(* and Base64-encoded are read back by get_packed_values, given their      *)
(* number and their type, as the very same values: int16, uint8 and        *)
(* float32, no value at all and the extreme values of each type included.  *)
(***************************************************************************)
C13_PackedRoundTrip ==
    \A r \in RoundTrips :
        (/\ handled # <<>> /\ handled[1].fn = "get_packed_values"
         /\ doc[1] = r.node) =>
            status = "done" /\ out[1].val = r.vals

\* The least and the greatest int16 read back.
C13_Witness ==
    /\ handled # <<>> /\ handled[1].fn = "get_packed_values"
    /\ doc[1] = PackedElement(VarTypeI2, "h", <<-32768, 32767>>)
    /\ status = "done"
    /\ out[1].val = <<-32768, 32767>>

\* The top-level nodes the document may hold: comments, and the element
\* compressed_data.
IsTopLevelKind(h) ==
    h.type = "comment" \/ (h.type = "element" /\ h.name = "compressed_data")

(***************************************************************************)
(* C14.  At the top level of the document a comment goes to the comment    *)
(* decoder and the element compressed_data to the payload decoder; a node  *)
(* that is neither, an element of another name or a node of another kind,  *)
(* ends the decode with UnexpectedNodeError carrying that node, and        *)
(* nothing of it is decoded.                                               *)
(***************************************************************************)
C14_TopLevelDispatch ==
    \A k \in 1..Len(handled) :
        LET h == handled[k]
        IN  (h.fn = "parse_xad_file" /\ ~IsTopLevelKind(h)) =>
                /\ h.exc = "UnexpectedNodeError"
                /\ status = "failed"
                /\ error.exc = "UnexpectedNodeError"
                /\ error.node = h.path
                /\ KeysAt(h.path) = {}

\* What each decoder made of the preview comment doc[1]: the preamble it
\* printed and the embedded text it handed to its parser.
XadSplit ==
    LET es == SelectSeq(out, LAMBDA e : e.key \in {"xad.py Have preview",
                                                   "xad.py parse_preview_xml"})
    IN  [split |-> es # <<>>,
         pre |-> IF es = <<>> THEN <<>> ELSE es[1].val[2],
         xml |-> IF es = <<>> THEN <<>> ELSE es[2].val]

XadderSplit ==
    LET es == SelectSeq(out, LAMBDA e : e.key = "Have preview" /\ e.at = <<1>>)
    IN  [split |-> es # <<>>,
         pre |-> IF es = <<>> THEN <<>> ELSE es[1].val[2],
         xml |-> IF es = <<>> THEN <<>> ELSE parsed[1].text]

BothCalled ==
    /\ status # "running"
    /\ \E k \in 1..Len(handled) : handled[k].fn = "comment_handler"

HasNul(t) == \E k \in 1..Len(t) : t[k] = 0

(***************************************************************************)
(* C15, as claimed.  A preview text that xad.py splits is split by         *)
(* xadder.py too, into the same preamble and the same embedded XML.        *)
(***************************************************************************)
C15_SameSplit ==
    (BothCalled /\ XadSplit.split) =>
        /\ XadderSplit.split
        /\ XadderSplit.pre = XadSplit.pre
        /\ XadderSplit.xml = XadSplit.xml

(***************************************************************************)
(* C15, as it holds.  A preview text that xad.py splits is split by        *)
(* xadder.py too, and into the same preamble and the same embedded XML     *)
(* exactly when the embedded XML xad.py takes from it holds no NUL: when   *)
(* it does, xadder.py splits at the last NUL in it and xad.py at the SOH   *)
(* before.                                                                 *)
(***************************************************************************)
C15_SameSplitWithoutNul ==
    (BothCalled /\ XadSplit.split) =>
        /\ XadderSplit.split
        /\ (XadderSplit.pre = XadSplit.pre /\ XadderSplit.xml = XadSplit.xml)
              <=> ~HasNul(XadSplit.xml)

\* Both split the text of a real preview, two characters, SOH, the document
\* and NUL, at its SOH.
C15_Witness ==
    /\ BothCalled
    /\ XadSplit.split /\ XadderSplit.split
    /\ XadSplit.xml = PreviewXml
    /\ XadderSplit.xml = PreviewXml
    /\ XadSplit.pre = Utf16leEncode(<<23440>>)
    /\ XadderSplit.pre = XadSplit.pre

\* What the file f holds after the writes made so far: each open(f, 'wb')
\* empties the file, so it holds what was written last.
NoFile == <<-1>>

Stored(f) ==
    LET ws == SelectSeq(files, LAMBDA w : w.ctx = <<f>>)
    IN  IF ws = <<>> THEN NoFile ELSE ws[Len(ws)].val

\* The GelImage elements handled so far without failure, in the order they
\* were handled, and the image each holds.
GelHandled ==
    SelectSeq(handled, LAMBDA h : h.fn = "handle_preview" /\ h.name = "GelImage"
                                  /\ h.exc = "none")

ImageAt(p) ==
    LET text == (CHOOSE e \in {parsed[k] : k \in 1..Len(parsed)} : e.at = <<p[1]>>).text
        node == parseString(text).val[p[3]].kids[p[4]]
    IN  B64DecodeStr(get_text(node, p).val).val

(***************************************************************************)
(* C16.  Every gel image is written to the one file gel_image_filename:    *)
(* there is one write for each GelImage handled, in the order they are     *)
(* handled, and the file holds the image of the last one, whole, whether   *)
(* the GelImage elements are children of one Preview or of several, and    *)
(* whatever comes after them.                                              *)
(***************************************************************************)
C16_LastGelImageStored ==
    /\ Len(files) = Len(GelHandled)
    /\ \A k \in 1..Len(files) :
          /\ files[k].ctx = <<GelImageFilename>>
          /\ files[k].at = GelHandled[k].path
          /\ files[k].val = ImageAt(GelHandled[k].path)
    /\ \A k, j \in 1..Len(GelHandled) :
          k < j => DocBefore(GelHandled[k].path, GelHandled[j].path)
    /\ Stored(GelImageFilename) =
          IF GelHandled = <<>> THEN NoFile
          ELSE ImageAt(GelHandled[Len(GelHandled)].path)

\* Two Previews with a gel image each, the second another image than the
\* first, and the decode done.
C16_Witness ==
    /\ status = "done"
    /\ Len(GelHandled) = 2
    /\ GelHandled[1].path[1] # GelHandled[2].path[1]
    /\ ImageAt(GelHandled[1].path) = GelPng
    /\ Stored(GelImageFilename) = GelJpg


\* How far down the chain of calls each loop sits: a loop is only ever
\* entered from a loop that sits higher up.
Loops ==
    ElementHandlers
        \cup {"parse_xad_file", "parse_preview_xml", "parse_data_xml",
              "handle_raw_signals"}

Level(fn) ==
    CASE fn = "parse_xad_file" -> 1
      [] fn \in {"parse_preview_xml", "parse_data_xml"} -> 2
      [] fn \in {"handle_preview", "handle_chipset"} -> 3
      [] fn = "handle_chips" -> 4
      [] fn = "handle_chip" -> 5
      [] fn \in {"handle_assay_body", "handle_script", "handle_raw_signals"} -> 6
      [] fn \in {"handle_da_assay_setpoints", "handle_da_sample_setpoints",
                 "handle_da_ladder_sequence", "handle_raw_signal_set"} -> 7
      [] fn \in {"handle_dam_assay_setpoints", "handle_channel",
                 "handle_current", "handle_voltage"} -> 8
      [] fn = "handle_signal_data" -> 9

MaxHandlerDepth == Level("handle_signal_data")

\* The children a loop prints with toxml() and goes no further into.
RawNames(fn) ==
    CASE fn = "handle_chipset" -> ChipsetRawNames
      [] fn = "handle_chip" -> ChipRawNames
      [] fn = "handle_assay_body" -> AssayBodyRawNames
      [] fn = "handle_da_assay_setpoints" -> DAAssayRawNames
      [] fn = "handle_da_sample_setpoints" -> DASampleRawNames
      [] fn = "handle_da_ladder_sequence" -> {"DAMethod"}
      [] OTHER -> {}

IsUnder(p, q) == Len(q) > Len(p) /\ SubSeq(q, 1, Len(p)) = p

\* The turns the loop fn over the children of the node at path has taken
\* so far are its first n children, one turn each, in document order.
DispatchedInOrder(fn, path, n) ==
    LET Mine(h) == h.fn = fn /\ Len(h.path) = Len(path) + 1 /\ IsUnder(path, h.path)
        hs == SelectSeq(handled, Mine)
    IN  /\ Len(hs) = n
        /\ \A j \in 1..n : hs[j].path = Append(path, j)

EachChildOnce ==
    /\ \A k \in 1..Len(walks) :
          DispatchedInOrder(walks[k].fn, walks[k].path, Len(walks[k].kids))
    /\ status = "running" =>
          \A k \in 1..Len(stack) :
              DispatchedInOrder(stack[k].fn, stack[k].path, stack[k].i - 1)

CallsGoDown ==
    /\ Len(stack) <= MaxHandlerDepth
    /\ \A k \in 1..(Len(stack) - 1) : Level(stack[k].fn) < Level(stack[k + 1].fn)

IsRawFragment(h) ==
    h.type = "element" /\ h.exc = "none" /\ h.name \in RawNames(h.fn)

RawNotDescended ==
    \A k \in 1..Len(handled) :
        IsRawFragment(handled[k]) =>
            /\ \A j \in 1..Len(handled) : ~IsUnder(handled[k].path, handled[j].path)
            /\ \A j \in 1..Len(walks) : walks[j].path # handled[k].path
            /\ \A j \in 1..Len(stack) : stack[j].path # handled[k].path

\* The turns a loop over the children ks has yet to take at most, its own
\* return and the turns of the loops its turns may open counted in.
RECURSIVE Turns(_)
Turns(ks) ==
    IF ks = <<>> THEN 1 ELSE 1 + Turns(Head(ks).kids) + Turns(Tail(ks))

\* The same for the loop of parse_xad_file from its k-th child on: the loop
\* a turn opens there is over the document parsed out of the child.
RECURSIVE TopTurns(_, _, _)
TopTurns(ks, path, k) ==
    IF k > Len(ks) THEN 1
    ELSE LET eff == XadChild(ks[k], Append(path, k))
         IN  1 + (IF eff.call = NoCall THEN 0 ELSE Turns(eff.call.kids))
               + TopTurns(ks, path, k + 1)

TurnsLeft(f) ==
    IF f.fn = "parse_xad_file" THEN TopTurns(f.kids, f.path, f.i)
    ELSE Turns(SubSeq(f.kids, f.i, Len(f.kids)))

RECURSIVE StackTurns(_)
StackTurns(s) == IF s = <<>> THEN 0 ELSE TurnsLeft(Head(s)) + StackTurns(Tail(s))

\* The steps the run can still take at most, and the steps it has taken:
\* every step is a turn of a loop or the return of one.
Measure == StackTurns(stack)

StepsTaken == Len(handled) + Len(walks)

\* A run that goes on has a loop in progress, and so a step to take.
NeverStuck ==
    status = "running" => (stack # <<>> /\ Top.fn \in Loops)

\* C17: every walk ends: each step of the run is one more step taken, the
\* steps taken and the steps left never add up to more than the number the
\* document starts the run at, and a run that is not over has a step to
\* take.  On the way each child of a walked element gets exactly one turn
\* of the loop over it, in document order; the loops in progress descend
\* the chain of handlers, so there are never more of them than the chain is
\* long, however deep the document; and nothing inside a child printed with
\* toxml() is ever handled.
C17_WalkTerminates ==
    /\ [][StepsTaken' = StepsTaken + 1]_vars
    /\ [](StepsTaken + Measure <= TopTurns(doc, <<>>, 1) /\ NeverStuck)
    /\ [](EachChildOnce /\ CallsGoDown /\ RawNotDescended)

\* How deeply the nodes below node are nested.
RECURSIVE Depth(_)
Depth(node) ==
    IF node.kids = <<>> THEN 1
    ELSE 1 + Max({Depth(node.kids[k]) : k \in 1..Len(node.kids)})

\* A finished walk of a document nested deeper than the chain of handlers,
\* that went all the way down the chain and passed over a toxml() child.
C17_Witness ==
    /\ status = "done"
    /\ \E k \in 1..Len(parsed), d \in DeepDocs :
          /\ parsed[k].text = DocToXml(d)
          /\ Depth(d[1]) > MaxHandlerDepth
    /\ \E k \in 1..Len(walks) : walks[k].fn = "handle_signal_data"
    /\ \E k \in 1..Len(handled) : IsRawFragment(handled[k])
====
